---- MODULE Spec2Model ----
(***************************************************************************)
(* A model of flagon: the field definition registry of an entity type     *)
(* (entity.go), the field codec (field.go), name validation               *)
(* (namespace.go, flagon.go), entity keys and the entity type's table     *)
(* (entity.go), and the storage singleton (internal/storage/db.go).       *)
(*                                                                         *)
(* Strings and byte slices are sequences of byte values (0..255); a name  *)
(* such as "ab" is <<97, 98>>.                                             *)
(***************************************************************************)
EXTENDS Integers, Sequences, FiniteSets, TLC

VARIABLES
    fields,     \* EntityTypeDefn.fields : name -> FieldDefn
    mutexW,     \* EntityTypeDefn.mutex : the goroutine holding Lock, or 0
    mutexR,     \* EntityTypeDefn.mutex : the goroutines holding RLock
    pc,         \* per goroutine: where it stands inside AddField/Field/Fields
    local,      \* per goroutine: the arguments and locals of the call in progress
    ret,        \* what the most recently completed call was and what it returned
    addLog,     \* history: the FieldDefns stored by successful AddField calls, in order
    ftag,       \* codec: which Field type is under test ("bool", "int8", ..., "string", "time")
    src,        \* codec: f.value of the field that is Set and written
    setArg,     \* codec: history: the argument of the last Set call
    logged,     \* codec: whether the last Set call wrote a line to the log
    out,        \* codec: the bytes.Buffer that WriteTo writes to
    wres,       \* codec: what WriteTo returned
    rdr,        \* codec: the io.Reader that ReadFrom reads from
    dst,        \* codec: f.value of the fresh field that ReadFrom fills
    rres,       \* codec: what ReadFrom returned
    cpc,        \* codec: "new", "set", "written", "opened", "read" or "reread"
    nameRegexp, \* names: the package's *regexp.Regexp for names: nil, or the compiled pattern
    nameArg,    \* names: the name handed to NewNamespace, NewEntityTypeDefn and AddField
    nsRes,      \* names: what NewNamespace(nameArg) returned
    etRes,      \* names: what NewEntityTypeDefn(nameArg) returned
    bucket,     \* table: the entity type's bucket in the store: key bytes -> stored entity
    putLog,     \* table: history: the IDs of the entities created by Put, in order
    sopts,      \* table: the SearchOpts and predicate of the last Search
    sres,       \* table: what the last Search visited and returned
    storageDir, \* storage: the base storage directory path
    dberr,      \* storage: the database initialisation error, or "nil"
    theDB,      \* storage: the singleton DB; theDB.db is the bolt handle, or nil
    onceDB,     \* storage: the sync.Once that protects the singleton
    dpc,        \* storage: per goroutine: where it stands inside InitDB/DbInstance
    dlocal,     \* storage: per goroutine: the locals of the call in progress
    disk,       \* storage: the file system: database directories and files
    dbRet,      \* storage: what the most recently completed call was and what it returned
    instanceRuns, \* storage: history: how many times instance() has called bolt.Open
    firstErr,   \* storage: history: the error of instance()'s open, until an InitDB succeeds
    dcalls      \* storage: history: how many calls of the package have begun

regVars == <<fields, mutexW, mutexR, pc, local, ret, addLog>>

codecVars == <<ftag, src, setArg, logged, out, wres, rdr, dst, rres, cpc>>

nameVars == <<nameRegexp, nameArg, nsRes, etRes>>

tableVars == <<bucket, putLog, sopts, sres>>

dbVars == <<storageDir, dberr, theDB, onceDB, dpc, dlocal, disk, dbRet, instanceRuns,
           firstErr, dcalls>>

vars == <<regVars, codecVars, nameVars, tableVars, dbVars>>

(***************************************************************************)
(* Bounds of the model.                                                    *)
(***************************************************************************)
NumThreads == 2        \* goroutines calling into one EntityTypeDefn
PrefillCount == 255    \* fields a long-lived registry already holds in Init
MaxNameLen == 3        \* longest name enumerated when names are validated
MaxLimit == 2          \* largest SearchOpts.Limit a Search is given
MaxCalls == 3          \* storage calls (InitDB, DbInstance, Close) begun in one run

Threads == 1..NumThreads

(***************************************************************************)
(* Characters.                                                             *)
(***************************************************************************)
ChHyphen == 45
ChUnderscore == 95
ChDigits == 48..57
ChLower == 97..122

(***************************************************************************)
(* The pattern "^[a-z0-9][a-z0-9\\-_]*[a-z0-9]$", run as the automaton     *)
(* the expression denotes: state 0 before the first character, state 1    *)
(* after the leading [a-z0-9] and inside [a-z0-9\-_]*, state 2 after a    *)
(* closing [a-z0-9].  A character of the closing class can also continue  *)
(* the starred class, so the automaton is run on sets of states.          *)
(***************************************************************************)
ReClassEdge == ChLower \cup ChDigits
ReClassMid == ChLower \cup ChDigits \cup {ChHyphen, ChUnderscore}

ReStep(q, c) ==
    CASE q = 0 -> IF c \in ReClassEdge THEN {1} ELSE {}
      [] q = 1 -> (IF c \in ReClassMid THEN {1} ELSE {})
                  \cup (IF c \in ReClassEdge THEN {2} ELSE {})
      [] OTHER -> {}

RECURSIVE ReRun(_, _, _)
ReRun(s, i, qs) ==
    IF i > Len(s) THEN qs
    ELSE ReRun(s, i + 1, UNION {ReStep(q, s[i]) : q \in qs})

\* var nameRegexp *regexp.Regexp is declared without a value, so it is nil
\* until it is assigned.  The one regexp.MustCompile of the package, in
\* init(), assigns nsNameRegexp, the name the comment above the declaration
\* still uses; no statement assigns nameRegexp under its present name, and
\* init() runs after the package's variables have been initialised.  Both
\* are outcomes: the pointer is nil when the package's variables are
\* initialised, or it holds the compiled pattern by then.
NilRegexp == "nil"
CompiledRegexp == "^[a-z0-9][a-z0-9\\-_]*[a-z0-9]$"

\* nameRegexp.String(): [panic, s], the source text of the expression.  A
\* nil receiver is dereferenced and panics.
RegexpString(re) ==
    IF re = NilRegexp THEN [panic |-> TRUE, s |-> ""]
    ELSE [panic |-> FALSE, s |-> re]

\* The initialiser of the package variable ErrNameInvalid,
\* fmt.Errorf("name should conform to `%s`", nameRegexp.String()), runs
\* when package flagon is initialised, before any function of the package
\* can be called.  A panic there ends the program: no call is ever made.
PackageInitialised == ~RegexpString(nameRegexp).panic

\* nameRegexp.MatchString(s): [panic, ok].  A nil receiver is dereferenced
\* and panics; ^ and $ anchor the match to the whole text.
MatchString(re, s) ==
    IF re = NilRegexp THEN [panic |-> TRUE, ok |-> FALSE]
    ELSE [panic |-> FALSE, ok |-> 2 \in ReRun(s, 1, {0})]

(***************************************************************************)
(* FieldType and FieldDefn.                                                *)
(***************************************************************************)
FieldTypeUnknown == 0
FieldTypeBool == 1
FieldTypeString == 13
FieldTypeCollection == 16

\* An IsValidFieldType that takes FieldTypeUnknown for a type.
IsValidFieldType_AcceptsUnknown(t) == t \in FieldTypeUnknown..FieldTypeCollection

\* The switch of IsValidFieldType lists every constant from FieldTypeBool
\* to FieldTypeCollection, which are consecutive iota values.
IsValidFieldType(t) == t \in FieldTypeBool..FieldTypeCollection

\* FieldDefn{}: Go's zero value, what Field returns beside ErrNameUnknown.
ZeroFieldDefn == [Ftype |-> FieldTypeUnknown, ID |-> 0, Name |-> <<>>]

\* uint8(x)
Uint8(x) == x % 256

(***************************************************************************)
(* EntityTypeDefn.                                                         *)
(***************************************************************************)
\* len(ed.fields)
LenFields(fs) == Cardinality(DOMAIN fs)

\* fd := FieldDefn{Ftype: ftype, ID: uint8(n + 1), Name: name}
NewFieldDefn(name, ftype, n) == [Ftype |-> ftype, ID |-> Uint8(n + 1), Name |-> name]

\* ed.fields[name] = fd
MapPut(fs, name, fd) == [k \in DOMAIN fs \cup {name} |-> IF k = name THEN fd ELSE fs[k]]

\* NewEntityTypeDefn: fields: make(map[string]FieldDefn, 2)
EmptyFields == [k \in {} |-> ZeroFieldDefn]

\* The k-th name of a long run of generated field names: "f001", "f002", ...
GenName(k) == <<102, 48 + (k \div 100), 48 + ((k \div 10) % 10), 48 + (k % 10)>>

\* The registry after AddField(GenName(1), Bool), ..., AddField(GenName(k), Bool)
\* on a new EntityTypeDefn, each call run to completion: the i-th call finds
\* i - 1 fields in the map.
Prefilled(k) ==
    LET idx(nm) == CHOOSE i \in 1..k : GenName(i) = nm
    IN  [nm \in {GenName(i) : i \in 1..k} |-> NewFieldDefn(nm, FieldTypeBool, idx(nm) - 1)]

\* sync.RWMutex: Lock waits until no reader and no writer holds the mutex,
\* RLock until no writer holds it.
CanLock == mutexW = 0 /\ mutexR = {}
CanRLock == mutexW = 0

\* "ab", "a1" and the invalid "-a"
NameInputs == { <<97, 98>>, <<97, 49>>, <<45, 97>> }
FieldTypeInputs == { FieldTypeUnknown, FieldTypeBool, FieldTypeString, FieldTypeCollection + 1 }

NoLocal == [name |-> <<>>, ftype |-> FieldTypeUnknown, n |-> 0]
NoRet == [op |-> "none", name |-> <<>>, ftype |-> FieldTypeUnknown,
          err |-> "nil", fd |-> ZeroFieldDefn, fds |-> {}]

\* A registry that holds fields was filled by AddField calls, which a
\* program makes only once its package has been initialised.
RegInit ==
    /\ \E p \in {0, PrefillCount} :
          /\ fields = Prefilled(p)
          /\ nameRegexp \in IF p = 0 THEN {NilRegexp, CompiledRegexp} ELSE {CompiledRegexp}
    /\ mutexW = 0
    /\ mutexR = {}
    /\ pc = [t \in Threads |-> "idle"]
    /\ local = [t \in Threads |-> NoLocal]
    /\ ret = NoRet
    /\ addLog = <<>>

\* AddField, lines 171-176: the two validations, before the lock is taken.
AddFieldReject(t, name, ftype) ==
    /\ PackageInitialised
    /\ pc[t] = "idle"
    /\ ~MatchString(nameRegexp, name).ok \/ ~IsValidFieldType(ftype)
    /\ ret' = [NoRet EXCEPT !.op = "AddField", !.name = name, !.ftype = ftype,
                  !.err = IF ~MatchString(nameRegexp, name).ok THEN "ErrNameInvalid"
                          ELSE "ErrFieldTypeUnknown"]
    /\ UNCHANGED <<fields, mutexW, mutexR, pc, local, addLog>>

\* AddField, line 177: ed.mutex.Lock() after both validations passed.
AddFieldLock(t, name, ftype) ==
    /\ PackageInitialised
    /\ pc[t] = "idle"
    /\ MatchString(nameRegexp, name).ok /\ IsValidFieldType(ftype)
    /\ CanLock
    /\ mutexW' = t
    /\ pc' = [pc EXCEPT ![t] = "AddField_check"]
    /\ local' = [local EXCEPT ![t] = [name |-> name, ftype |-> ftype, n |-> 0]]
    /\ UNCHANGED <<fields, mutexR, ret, addLog>>

\* AddField, lines 180-184: the duplicate check, then n := len(ed.fields).
\* A duplicate returns ErrNameExists and the deferred Unlock runs.
AddFieldCheck(t) ==
    /\ pc[t] = "AddField_check"
    /\ IF local[t].name \in DOMAIN fields
       THEN /\ ret' = [NoRet EXCEPT !.op = "AddField", !.name = local[t].name,
                          !.ftype = local[t].ftype, !.err = "ErrNameExists"]
            /\ pc' = [pc EXCEPT ![t] = "idle"]
            /\ local' = [local EXCEPT ![t] = NoLocal]
            /\ mutexW' = IF mutexW = t THEN 0 ELSE mutexW
       ELSE /\ local' = [local EXCEPT ![t].n = LenFields(fields)]
            /\ pc' = [pc EXCEPT ![t] = "AddField_insert"]
            /\ UNCHANGED <<ret, mutexW>>
    /\ UNCHANGED <<fields, mutexR, addLog>>

\* AddField, lines 185-187: build the FieldDefn, store it, return nil; the
\* deferred Unlock runs.
AddFieldInsert(t) ==
    /\ pc[t] = "AddField_insert"
    /\ LET fd == NewFieldDefn(local[t].name, local[t].ftype, local[t].n)
       IN  /\ fields' = MapPut(fields, local[t].name, fd)
           /\ addLog' = Append(addLog, fd)
           /\ ret' = [NoRet EXCEPT !.op = "AddField", !.name = local[t].name,
                         !.ftype = local[t].ftype, !.fd = fd]
    /\ pc' = [pc EXCEPT ![t] = "idle"]
    /\ local' = [local EXCEPT ![t] = NoLocal]
    /\ mutexW' = IF mutexW = t THEN 0 ELSE mutexW
    /\ UNCHANGED mutexR

\* Field, line 192: ed.mutex.RLock().
FieldRLock(t, name) ==
    /\ PackageInitialised
    /\ pc[t] = "idle"
    /\ CanRLock
    /\ mutexR' = mutexR \cup {t}
    /\ pc' = [pc EXCEPT ![t] = "Field_read"]
    /\ local' = [local EXCEPT ![t] = [NoLocal EXCEPT !.name = name]]
    /\ UNCHANGED <<fields, mutexW, ret, addLog>>

\* Field, lines 195-199: the lookup; the deferred RUnlock runs.
FieldRead(t) ==
    /\ pc[t] = "Field_read"
    /\ ret' = IF local[t].name \in DOMAIN fields
              THEN [NoRet EXCEPT !.op = "Field", !.name = local[t].name,
                                 !.fd = fields[local[t].name]]
              ELSE [NoRet EXCEPT !.op = "Field", !.name = local[t].name,
                                 !.err = "ErrNameUnknown"]
    /\ pc' = [pc EXCEPT ![t] = "idle"]
    /\ local' = [local EXCEPT ![t] = NoLocal]
    /\ mutexR' = mutexR \ {t}
    /\ UNCHANGED <<fields, mutexW, addLog>>

\* Fields, line 204: ed.mutex.RLock().
FieldsRLock(t) ==
    /\ PackageInitialised
    /\ pc[t] = "idle"
    /\ CanRLock
    /\ mutexR' = mutexR \cup {t}
    /\ pc' = [pc EXCEPT ![t] = "Fields_read"]
    /\ local' = [local EXCEPT ![t] = NoLocal]
    /\ UNCHANGED <<fields, mutexW, ret, addLog>>

\* Fields, lines 207-213: copy every FieldDefn out of the map; the deferred
\* RUnlock runs.  A Go map is ranged over in no fixed order, so the copy is
\* kept as the set of its elements.
FieldsRead(t) ==
    /\ pc[t] = "Fields_read"
    /\ ret' = [NoRet EXCEPT !.op = "Fields",
                                     !.fds = {fields[k] : k \in DOMAIN fields}]
    /\ pc' = [pc EXCEPT ![t] = "idle"]
    /\ local' = [local EXCEPT ![t] = NoLocal]
    /\ mutexR' = mutexR \ {t}
    /\ UNCHANGED <<fields, mutexW, addLog>>

(***************************************************************************)
(* The field codec.                                                        *)
(*                                                                         *)
(* TLC's integers are 32 bits wide.  int8, int16, int32, uint8 and uint16 *)
(* values are integers; a uint32, int64, uint64, float32 or float64 value *)
(* is its bit pattern as 16-bit words, most significant word first.       *)
(***************************************************************************)
MaxStringLen == 65535
TimeBinaryLen == 15

FixedKinds == {"bool", "int8", "int16", "int32", "int64", "uint8", "uint16",
               "uint32", "uint64", "float32", "float64"}
SignedKinds == {"int8", "int16", "int32"}
WordKinds == {"uint32", "int64", "uint64", "float32", "float64"}
FieldKinds == FixedKinds \cup {"string", "time"}

\* The size binary.Read and binary.Write give each fixed-size value.
Width(k) ==
    CASE k \in {"bool", "int8", "uint8"} -> 1
      [] k \in {"int16", "uint16"} -> 2
      [] k \in {"int32", "uint32", "float32"} -> 4
      [] OTHER -> 8

Pow256(n) == CASE n = 0 -> 1 [] n = 1 -> 256 [] n = 2 -> 65536 [] OTHER -> 16777216

ZeroWords(n) == [i \in 1..n |-> 0]

\* A 16-bit-word pattern as bytes, the high byte of each word first.
WordsToBytes(ws) ==
    [i \in 1..(2 * Len(ws)) |-> IF i % 2 = 1 THEN ws[(i + 1) \div 2] \div 256
                                             ELSE ws[i \div 2] % 256]

BytesToWords(bs) ==
    [j \in 1..(Len(bs) \div 2) |-> bs[2 * j - 1] * 256 + bs[2 * j]]

RECURSIVE UintBE(_)
UintBE(bs) ==
    IF bs = <<>> THEN 0
    ELSE UintBE(SubSeq(bs, 1, Len(bs) - 1)) * 256 + bs[Len(bs)]

\* binary.BigEndian.PutUintNN: the value's two's complement pattern, the
\* most significant byte first.
PutBE(k, v) ==
    IF k \in WordKinds THEN WordsToBytes(v)
    ELSE [i \in 1..Width(k) |-> (v \div Pow256(Width(k) - i)) % 256]

\* A decoder that takes the bytes in the opposite order.
GetBE_LittleEndian(k, bs) ==
    LET rev == [i \in 1..Len(bs) |-> bs[Len(bs) + 1 - i]]
    IN  IF k \in WordKinds THEN BytesToWords(rev)
        ELSE IF k \in SignedKinds
             THEN (IF rev[1] >= 128 THEN rev[1] - 256 ELSE rev[1]) * Pow256(Len(rev) - 1)
                  + UintBE(Tail(rev))
             ELSE UintBE(rev)

\* binary.BigEndian.UintNN followed by the conversion to the value's type.
GetBE(k, bs) ==
    IF k \in WordKinds THEN BytesToWords(bs)
    ELSE IF k \in SignedKinds
         THEN (IF bs[1] >= 128 THEN bs[1] - 256 ELSE bs[1]) * Pow256(Len(bs) - 1)
              + UintBE(Tail(bs))
         ELSE UintBE(bs)

\* time.Time: the instant as seconds (int64, four words) and nanoseconds
\* (int32, two words), and the location: UTC, or a zone's offset in minutes.
LocUTC == [utc |-> TRUE, offset |-> 0]
LocZone(minutes) == [utc |-> FALSE, offset |-> minutes]

ZeroTime == [sec |-> ZeroWords(4), nsec |-> ZeroWords(2), loc |-> LocUTC]

\* Time.UTC(): the same instant, located in UTC.
TimeUTC(t) == [t EXCEPT !.loc = LocUTC]

\* Time.MarshalBinary, version 1: the version byte, the seconds, the
\* nanoseconds, and the zone offset in minutes (-1 for UTC) as an int16.
MarshalBinary(t) ==
    <<1>> \o WordsToBytes(t.sec) \o WordsToBytes(t.nsec)
          \o PutBE("int16", IF t.loc.utc THEN -1 ELSE t.loc.offset)

\* Time.UnmarshalBinary: [err, value]; the value is t itself on an error.
UnmarshalBinary(t, data) ==
    IF Len(data) = 0 THEN [err |-> "Time.UnmarshalBinary: no data", value |-> t]
    ELSE IF data[1] # 1 THEN [err |-> "Time.UnmarshalBinary: unsupported version", value |-> t]
    ELSE IF Len(data) # TimeBinaryLen
         THEN [err |-> "Time.UnmarshalBinary: invalid length", value |-> t]
    ELSE LET off == GetBE("int16", SubSeq(data, 14, 15))
         IN  [err |-> "nil",
              value |-> [sec |-> BytesToWords(SubSeq(data, 2, 9)),
                         nsec |-> BytesToWords(SubSeq(data, 10, 13)),
                         loc |-> IF off = -1 THEN LocUTC ELSE LocZone(off)]]

\* The value a newly declared field holds.
ZeroValue(k) ==
    CASE k \in WordKinds -> ZeroWords(Width(k) \div 2)
      [] k = "string" -> <<>>
      [] k = "time" -> ZeroTime
      [] OTHER -> 0

\* Get: FieldBool answers value > 0, every other field its value.
GetValue(k, value) == IF k = "bool" THEN value > 0 ELSE value

\* FieldString.Set without the length check.
SetValue_NoLimit(k, value, v) ==
    CASE k = "bool" -> IF v THEN 1 ELSE 0
      [] OTHER -> v

\* Set: FieldBool stores 1 or 0, FieldString ignores a value longer than
\* 65535 bytes, every other field stores the value.
SetValue(k, value, v) ==
    CASE k = "bool" -> IF v THEN 1 ELSE 0
      [] k = "string" -> IF Len(v) > MaxStringLen THEN value ELSE v
      [] OTHER -> v

\* FieldString.Set logs when it ignores the value.
SetLogs(k, v) == k = "string" /\ Len(v) > MaxStringLen

(***************************************************************************)
(* io.Reader.  A reader is [kind, s, i]: the bytes it reads and how many  *)
(* it has handed out.  bytes.Reader answers io.EOF once its bytes are     *)
(* used up, whatever the length of the slice it is given; bytes.Buffer    *)
(* answers (0, nil) to a zero-length slice even when it is empty.         *)
(***************************************************************************)
ReaderKinds == {"bytes.Reader", "bytes.Buffer"}

NoReader == [kind |-> "none", s |-> <<>>, i |-> 0]

Remaining(r) == Len(r.s) - r.i

Min(a, b) == IF a < b THEN a ELSE b

\* r.Read(p) with len(p) = plen: [n, err, bytes, r].
ReaderRead(r, plen) ==
    IF Remaining(r) = 0 /\ (r.kind = "bytes.Reader" \/ plen > 0)
    THEN [n |-> 0, err |-> "EOF", bytes |-> <<>>, r |-> r]
    ELSE LET n == Min(plen, Remaining(r))
         IN  [n |-> n, err |-> "nil", bytes |-> SubSeq(r.s, r.i + 1, r.i + n),
              r |-> [r EXCEPT !.i = r.i + n]]

\* io.ReadFull(r, buf) with len(buf) = size > 0, as binary.Read calls it:
\* io.EOF when nothing is left, io.ErrUnexpectedEOF when too little is.
ReadFull(r, size) ==
    IF Remaining(r) >= size
    THEN [err |-> "nil", bytes |-> SubSeq(r.s, r.i + 1, r.i + size),
          r |-> [r EXCEPT !.i = r.i + size]]
    ELSE [err |-> IF Remaining(r) = 0 THEN "EOF" ELSE "ErrUnexpectedEOF",
          bytes |-> <<>>, r |-> [r EXCEPT !.i = Len(r.s)]]

NoResult == [n |-> -1, err |-> "none"]

(***************************************************************************)
(* WriteTo into a bytes.Buffer, whose Write never fails:                   *)
(* [n, err, bytes].                                                        *)
(***************************************************************************)
\* FieldBool .. FieldFloat64: binary.Write of the value, then the size.
FixedWriteTo(k, value) ==
    [n |-> Width(k), err |-> "nil", bytes |-> PutBE(k, value)]

\* FieldTime.WriteTo
TimeWriteTo(value) ==
    LET by == MarshalBinary(TimeUTC(value))
    IN  [n |-> TimeBinaryLen, err |-> "nil", bytes |-> by]

\* FieldString.WriteTo: nothing for "", else the length as a uint16 and the
\* bytes; the count answered is that of the second Write.
StringWriteTo(value) ==
    IF value = <<>> THEN [n |-> 0, err |-> "nil", bytes |-> <<>>]
    ELSE LET l == Len(value) % 65536
         IN  [n |-> Len(value), err |-> "nil", bytes |-> PutBE("uint16", l) \o value]

WriteTo(k, value) ==
    CASE k = "string" -> StringWriteTo(value)
      [] k = "time" -> TimeWriteTo(value)
      [] OTHER -> FixedWriteTo(k, value)

(***************************************************************************)
(* ReadFrom: [n, err, value, r], value being f.value after the call.      *)
(***************************************************************************)
\* FieldBool .. FieldFloat64: binary.Read into the value, then the size.
FixedReadFrom(k, value, r) ==
    LET got == ReadFull(r, Width(k))
    IN  IF got.err # "nil"
        THEN [n |-> 0, err |-> got.err, value |-> value, r |-> got.r]
        ELSE [n |-> Width(k), err |-> "nil", value |-> GetBE(k, got.bytes), r |-> got.r]

\* FieldTime.ReadFrom: by := make([]byte, 0, 15) has length 0, so r.Read(by)
\* hands out no byte and UnmarshalBinary is given an empty slice.
TimeReadFrom(value, r) ==
    LET got == ReaderRead(r, 0)
    IN  IF got.n # TimeBinaryLen /\ got.err # "nil"
        THEN [n |-> got.n, err |-> got.err, value |-> value, r |-> got.r]
        ELSE LET um == UnmarshalBinary(value, got.bytes)
             IN  IF um.err # "nil"
                 THEN [n |-> 0, err |-> um.err, value |-> um.value, r |-> got.r]
                 ELSE [n |-> TimeBinaryLen, err |-> "nil", value |-> um.value, r |-> got.r]

\* FieldString.ReadFrom without the test for a length of 0.
StringReadFrom_NoZeroCheck(value, r) ==
    LET pre == ReadFull(r, 2)
    IN  IF pre.err # "nil"
        THEN [n |-> 0, err |-> pre.err, value |-> value, r |-> pre.r]
        ELSE LET l == GetBE("uint16", pre.bytes)
                 got == ReaderRead(pre.r, 0)
             IN  IF got.err # "nil" \/ got.n # l
                 THEN [n |-> got.n, err |-> got.err, value |-> value, r |-> got.r]
                 ELSE [n |-> got.n, err |-> "nil", value |-> got.bytes, r |-> got.r]

\* FieldString.ReadFrom: the length as a uint16, io.EOF for a length of 0;
\* by := make([]byte, 0, l) has length 0, so r.Read(by) hands out no byte.
StringReadFrom(value, r) ==
    LET pre == ReadFull(r, 2)
    IN  IF pre.err # "nil"
        THEN [n |-> 0, err |-> pre.err, value |-> value, r |-> pre.r]
        ELSE LET l == GetBE("uint16", pre.bytes)
             IN  IF l = 0
                 THEN [n |-> 0, err |-> "EOF", value |-> value, r |-> pre.r]
                 ELSE LET got == ReaderRead(pre.r, 0)
                      IN  IF got.err # "nil" \/ got.n # l
                          THEN [n |-> got.n, err |-> got.err, value |-> value, r |-> got.r]
                          ELSE [n |-> got.n, err |-> "nil", value |-> got.bytes, r |-> got.r]

ReadFrom(k, value, r) ==
    CASE k = "string" -> StringReadFrom(value, r)
      [] k = "time" -> TimeReadFrom(value, r)
      [] OTHER -> FixedReadFrom(k, value, r)


(***************************************************************************)
(* The codec as a machine: a field is Set and written to a buffer; a      *)
(* reader is opened on the buffer's bytes, on the first bytes of them, or *)
(* on bytes from elsewhere; a fresh field of the same type reads from it. *)
(***************************************************************************)
Rep(c, n) == [i \in 1..n |-> c]

WordSamples == {0, 258, 32768, 65535}

TimeInputs ==
    { ZeroTime,
      [sec |-> <<0, 14, 54321, 258>>, nsec |-> <<15258, 51711>>, loc |-> LocUTC],
      [sec |-> <<0, 14, 54321, 258>>, nsec |-> <<15258, 51711>>, loc |-> LocZone(330)] }

StringInputs ==
    { <<>>, <<97>>, <<97, 98>>, <<0, 255, 10>>,
      Rep(120, MaxStringLen), Rep(121, MaxStringLen + 1) }

SetInputs(k) ==
    CASE k = "bool" -> BOOLEAN
      [] k = "int8" -> -128..127
      [] k = "uint8" -> 0..255
      [] k = "int16" -> {-32768, -32767, -257, -256, -255, -1, 0, 1, 127, 128, 255, 256, 258, 32767}
      [] k = "uint16" -> {0, 1, 255, 256, 258, 32767, 32768, 65535}
      [] k = "int32" -> {-2147483647 - 1, -16777217, -65536, -258, -1, 0, 1, 258, 65536,
                         16909060, 2147483647}
      [] k = "string" -> StringInputs
      [] k = "time" -> TimeInputs
      [] OTHER -> [1..(Width(k) \div 2) -> WordSamples]

RawInputs ==
    { <<0>>, <<1>>, <<2>>, <<255>>, <<0, 0>>, <<0, 0, 97>>, <<0, 1>>, <<0, 1, 97>>,
      <<0, 1, 97, 98>>, <<0, 2, 97>> }

\* How many of the written bytes a reader may be opened on.
TruncLens(n) == {k \in {0, 1, 2, 3, n - 1, n} : 0 <= k /\ k <= n}

CodecInit ==
    /\ ftag \in FieldKinds
    /\ src = ZeroValue(ftag)
    /\ setArg = <<>>
    /\ logged = FALSE
    /\ out = <<>>
    /\ wres = NoResult
    /\ rdr = NoReader
    /\ dst = ZeroValue(ftag)
    /\ rres = NoResult
    /\ cpc = "new"

\* f.Set(v)
FieldSet(v) ==
    /\ PackageInitialised
    /\ cpc \in {"new", "set"}
    /\ src' = SetValue(ftag, src, v)
    /\ setArg' = <<v>>
    /\ logged' = SetLogs(ftag, v)
    /\ cpc' = "set"
    /\ UNCHANGED <<ftag, out, wres, rdr, dst, rres>>

\* f.WriteTo(w), w a bytes.Buffer
FieldWriteTo ==
    /\ PackageInitialised
    /\ cpc \in {"new", "set"}
    /\ LET w == WriteTo(ftag, src)
       IN  /\ out' = out \o w.bytes
           /\ wres' = [n |-> w.n, err |-> w.err]
    /\ cpc' = "written"
    /\ UNCHANGED <<ftag, src, setArg, logged, rdr, dst, rres>>

\* bytes.NewReader / bytes.NewBuffer on the first k bytes written
OpenWritten(kind, k) ==
    /\ PackageInitialised
    /\ cpc = "written"
    /\ rdr' = [kind |-> kind, s |-> SubSeq(out, 1, k), i |-> 0]
    /\ cpc' = "opened"
    /\ UNCHANGED <<ftag, src, setArg, logged, out, wres, dst, rres>>

\* bytes.NewReader / bytes.NewBuffer on bytes that no WriteTo produced
OpenRaw(kind, bytes) ==
    /\ PackageInitialised
    /\ cpc \in {"new", "set"}
    /\ rdr' = [kind |-> kind, s |-> bytes, i |-> 0]
    /\ cpc' = "opened"
    /\ UNCHANGED <<ftag, src, setArg, logged, out, wres, dst, rres>>

\* g.ReadFrom(r), g a fresh field
FieldReadFrom ==
    /\ PackageInitialised
    /\ cpc = "opened"
    /\ LET got == ReadFrom(ftag, dst, rdr)
       IN  /\ dst' = got.value
           /\ rres' = [n |-> got.n, err |-> got.err]
           /\ rdr' = got.r
    /\ cpc' = "read"
    /\ UNCHANGED <<ftag, src, setArg, logged, out, wres>>

\* f.ReadFrom(r), f the field that was Set: it reads over the value it holds
FieldReadFromHeld ==
    /\ PackageInitialised
    /\ cpc = "opened"
    /\ wres = NoResult
    /\ setArg # <<>>
    /\ LET got == ReadFrom(ftag, src, rdr)
       IN  /\ src' = got.value
           /\ rres' = [n |-> got.n, err |-> got.err]
           /\ rdr' = got.r
    /\ cpc' = "reread"
    /\ UNCHANGED <<ftag, setArg, logged, out, wres, dst>>

\* The codec left alone: what the other specifications start from.
CodecIdle ==
    /\ ftag = "none"
    /\ src = 0
    /\ setArg = <<>>
    /\ logged = FALSE
    /\ out = <<>>
    /\ wres = NoResult
    /\ rdr = NoReader
    /\ dst = 0
    /\ rres = NoResult
    /\ cpc = "off"

\* The registry left alone.
RegIdle ==
    /\ fields = EmptyFields
    /\ mutexW = 0
    /\ mutexR = {}
    /\ pc = [t \in Threads |-> "idle"]
    /\ local = [t \in Threads |-> NoLocal]
    /\ ret = NoRet
    /\ addLog = <<>>

(***************************************************************************)
(* Name validation by the three constructors that take a name.            *)
(***************************************************************************)
NoCall == [called |-> FALSE, err |-> "nil", name |-> <<>>]

\* NewNamespace: [called, err, name]; name is the new Namespace's name.
NewNamespace(re, name) ==
    IF name = <<>> THEN [called |-> TRUE, err |-> "ErrNameEmpty", name |-> <<>>]
    ELSE IF MatchString(re, name).panic THEN [called |-> TRUE, err |-> "panic", name |-> <<>>]
    ELSE IF ~MatchString(re, name).ok
         THEN [called |-> TRUE, err |-> "ErrNameInvalid", name |-> <<>>]
    ELSE [called |-> TRUE, err |-> "nil", name |-> name]

\* NewEntityTypeDefn: [called, err, name]; name is the new EntityTypeDefn's
\* name, its fields being an empty map.
NewEntityTypeDefn(re, name) ==
    IF MatchString(re, name).panic THEN [called |-> TRUE, err |-> "panic", name |-> <<>>]
    ELSE IF ~MatchString(re, name).ok
         THEN [called |-> TRUE, err |-> "ErrNameInvalid", name |-> <<>>]
    ELSE [called |-> TRUE, err |-> "nil", name |-> name]

\* '\n', '-', '0', '9', 'A', '_', '`', 'a', 'z': the characters of the
\* pattern's classes, their neighbours, and a line break.
NameAlphabet == {10, 45, 48, 57, 65, 95, 96, 97, 122}

\* The names the documentation gives as examples: "ab", "a1-b_2", "", "A",
\* "-ab", "ab-", "a"; and "ab-cd".
ExampleNames ==
    { <<97, 98>>, <<97, 49, 45, 98, 95, 50>>, <<>>, <<65>>, <<45, 97, 98>>,
      <<97, 98, 45>>, <<97>>, <<97, 98, 45, 99, 100>> }

NameSamples == UNION {[1..n -> NameAlphabet] : n \in 0..MaxNameLen} \cup ExampleNames

NamesInit ==
    /\ nameRegexp \in {NilRegexp, CompiledRegexp}
    /\ nameArg \in NameSamples
    /\ nsRes = NoCall
    /\ etRes = NoCall

\* No name has been handed to the three.
NamesQuiet ==
    /\ nameArg = <<>>
    /\ nsRes = NoCall
    /\ etRes = NoCall

\* The three left alone, in either program.
NamesIdle ==
    /\ nameRegexp \in {NilRegexp, CompiledRegexp}
    /\ NamesQuiet

CallNewNamespace ==
    /\ PackageInitialised
    /\ ~nsRes.called
    /\ nsRes' = NewNamespace(nameRegexp, nameArg)
    /\ UNCHANGED <<nameRegexp, nameArg, etRes>>

CallNewEntityTypeDefn ==
    /\ PackageInitialised
    /\ ~etRes.called
    /\ etRes' = NewEntityTypeDefn(nameRegexp, nameArg)
    /\ UNCHANGED <<nameRegexp, nameArg, nsRes>>

(***************************************************************************)
(* Entity keys and the entity type's table.                                *)
(*                                                                         *)
(* An entity ID is a uint64: four 16-bit words, most significant first.   *)
(* The table's bucket lives in the store, which keeps its keys in byte    *)
(* order; an entity is stored as the ID it carries.                       *)
(***************************************************************************)
\* EntityKey.Key with the bytes in the opposite order.
Key_LittleEndian(id) ==
    LET by == PutBE("uint64", id) IN [i \in 1..Len(by) |-> by[Len(by) + 1 - i]]

\* EntityKey.Key: binary.Write(buf, binary.BigEndian, k.id) into an empty
\* bytes.Buffer, which cannot fail; buf.Bytes().
Key(id) == PutBE("uint64", id)

\* EntityKey.fromKey decoding the bytes in the opposite order.
fromKey_LittleEndian(by) ==
    LET got == ReadFull([kind |-> "bytes.Reader", s |-> by, i |-> 0], Width("uint64"))
    IN  IF got.err # "nil" THEN [err |-> got.err, id |-> ZeroWords(4)]
        ELSE [err |-> "nil", id |-> GetBE_LittleEndian("uint64", got.bytes)]

\* EntityKey.fromKey on a zero EntityKey: binary.Read from a bytes.Reader on
\* the bytes; [err, id].
fromKey(by) ==
    LET got == ReadFull([kind |-> "bytes.Reader", s |-> by, i |-> 0], Width("uint64"))
    IN  IF got.err # "nil" THEN [err |-> got.err, id |-> ZeroWords(4)]
        ELSE [err |-> "nil", id |-> GetBE("uint64", got.bytes)]

\* bytes.Compare(a, b) < 0: the order in which the store keeps its keys.
RECURSIVE BytesLess(_, _)
BytesLess(a, b) ==
    IF b = <<>> THEN FALSE
    ELSE IF a = <<>> THEN TRUE
    ELSE IF a[1] # b[1] THEN a[1] < b[1]
    ELSE BytesLess(Tail(a), Tail(b))

\* The keys of a bucket as a cursor walks them: First, then Next, Next, ...
RECURSIVE CursorOrder(_)
CursorOrder(keys) ==
    IF keys = {} THEN <<>>
    ELSE LET k == CHOOSE x \in keys : \A y \in keys \ {x} : BytesLess(x, y)
         IN  <<k>> \o CursorOrder(keys \ {k})

\* Cursor.Seek(seek): the keys from the first one >= seek on.
CursorSeek(keys, seek) == CursorOrder({k \in keys : ~BytesLess(k, seek)})

EmptyBucket == [k \in {} |-> ZeroWords(4)]

\* Put(entity): the entity is written under entity.Key(), created if absent
\* and overwritten if present.
Put(b, id) == [k \in DOMAIN b \cup {Key(id)} |-> IF k = Key(id) THEN id ELSE b[k]]

\* The caller's predicate, a SearchFn: "all" holds of every entity, "odd"
\* of those whose ID is odd.
Predicates == {"all", "odd"}
SearchFn(pred, id, entity) == pred = "all" \/ id[4] % 2 = 1

\* Search(opts, fn) from the cursor's position on: the keys still to visit,
\* the matches collected so far, the IDs visited so far.
RECURSIVE SearchFrom(_, _, _, _, _, _)
SearchFrom(b, rest, limit, pred, found, visited) ==
    IF rest = <<>> \/ (limit # 0 /\ Len(found) >= limit)
    THEN [err |-> "nil", keys |-> found, visited |-> visited]
    ELSE LET k == fromKey(Head(rest))
         IN  IF k.err # "nil"
             THEN [err |-> k.err, keys |-> <<>>, visited |-> visited]
             ELSE SearchFrom(b, Tail(rest), limit, pred,
                             IF SearchFn(pred, k.id, b[Head(rest)])
                             THEN Append(found, k.id) ELSE found,
                             Append(visited, k.id))

\* Search(opts, fn): [err, keys, visited]
Search(b, opts) ==
    SearchFrom(b, CursorSeek(DOMAIN b, Key(opts.StartAt)), opts.Limit, opts.pred,
               <<>>, <<>>)

\* IDs 1, 3, 5, 256 and 2^48 + 65536.
IDInputs ==
    { <<0, 0, 0, 1>>, <<0, 0, 0, 3>>, <<0, 0, 0, 5>>, <<0, 0, 0, 256>>, <<1, 0, 1, 0>> }

\* StartAt: 0 (from the first key on), a stored ID, IDs between stored ones.
StartAtInputs == { <<0, 0, 0, 0>>, <<0, 0, 0, 3>>, <<0, 0, 0, 4>>, <<0, 0, 0, 257>> }

NoSearchOpts == [StartAt |-> ZeroWords(4), Limit |-> 0, pred |-> "none"]
NoSearch == [err |-> "none", keys |-> <<>>, visited |-> <<>>]

TableInit ==
    /\ bucket = EmptyBucket
    /\ putLog = <<>>
    /\ sopts = NoSearchOpts
    /\ sres = NoSearch

TableIdle == TableInit

\* et.Put(entity), entity.ID() = id
TablePut(id) ==
    /\ PackageInitialised
    /\ bucket' = Put(bucket, id)
    /\ putLog' = IF Key(id) \in DOMAIN bucket THEN putLog ELSE Append(putLog, id)
    /\ sopts' = NoSearchOpts
    /\ sres' = NoSearch

\* et.Search(opts, fn)
TableSearch(startAt, limit, pred) ==
    /\ PackageInitialised
    /\ sopts' = [StartAt |-> startAt, Limit |-> limit, pred |-> pred]
    /\ sres' = Search(bucket, sopts')
    /\ UNCHANGED <<bucket, putLog>>

(***************************************************************************)
(* The storage singleton (internal/storage/db.go).                         *)
(*                                                                         *)
(* Paths are byte sequences.  The file system maps each database          *)
(* directory to [dir, file, buckets, locked]: whether the directory and   *)
(* the database file exist, the buckets of the file (bucket path -> keys  *)
(* it holds), and whether an open bolt handle holds the file's lock.      *)
(* bolt.Open waits for the lock with no timeout.                          *)
(*                                                                         *)
(* storageDir, dberr and theDB.db are package variables that InitDB,      *)
(* DbInstance and Close read and write without any lock; only instance()  *)
(* runs under onceDB.  Every read and every write of them is a step of    *)
(* its own, and the goroutines' steps interleave freely.                  *)
(*                                                                         *)
(* A *bolt.DB is [nil, file, open].  The file lock admits one open handle *)
(* per file, so two open handles on one file are the same handle, and a   *)
(* closed handle stays closed: closing marks every copy of the pointer.   *)
(***************************************************************************)
ChSlash == 47
ChDot == 46

dbdir == <<100, 98>>                                      \* "db"
dbname == <<102, 108, 97, 103, 111, 110, 46, 100, 98>>   \* "flagon.db"
dbsysname == "_sys"
dbnsdefsname == "nsdefs"
dbetdefsname == "etdefs"

\* path.IsAbs
IsAbs(p) == Len(p) > 0 /\ p[1] = ChSlash

\* The elements of a path between its slashes, empty ones included.
RECURSIVE PathElements(_)
PathElements(p) ==
    IF p = <<>> THEN << <<>> >>
    ELSE LET r == PathElements(Tail(p))
         IN  IF Head(p) = ChSlash THEN << <<>> >> \o r
             ELSE << <<Head(p)>> \o Head(r) >> \o Tail(r)

\* path.Clean's rules 2 to 4 on the elements: empty and "." elements go,
\* ".." takes the element before it away, and goes itself at the root.
RECURSIVE CleanElements(_, _, _)
CleanElements(es, kept, rooted) ==
    IF es = <<>> THEN kept
    ELSE LET e == Head(es)
         IN  IF e = <<>> \/ e = <<ChDot>> THEN CleanElements(Tail(es), kept, rooted)
             ELSE IF e = <<ChDot, ChDot>>
                  THEN IF kept # <<>> /\ kept[Len(kept)] # <<ChDot, ChDot>>
                       THEN CleanElements(Tail(es), SubSeq(kept, 1, Len(kept) - 1), rooted)
                       ELSE IF rooted THEN CleanElements(Tail(es), kept, rooted)
                       ELSE CleanElements(Tail(es), Append(kept, e), rooted)
             ELSE CleanElements(Tail(es), Append(kept, e), rooted)

\* The non-empty elements with a slash between each two.
RECURSIVE JoinElements(_)
JoinElements(es) ==
    IF es = <<>> THEN <<>>
    ELSE IF Len(es) = 1 THEN es[1]
    ELSE es[1] \o <<ChSlash>> \o JoinElements(Tail(es))

\* path.Clean: the shortest path equivalent to p; "." for the empty one.
Clean(p) ==
    IF p = <<>> THEN <<ChDot>>
    ELSE LET rooted == p[1] = ChSlash
             body == JoinElements(CleanElements(PathElements(p), <<>>, rooted))
         IN  IF rooted THEN <<ChSlash>> \o body
             ELSE IF body = <<>> THEN <<ChDot>>
             ELSE body

\* path.Join(elem...): empty elements are ignored, the rest joined with
\* slashes and cleaned; "" when every element is empty.
Join(elem) ==
    LET es == SelectSeq(elem, LAMBDA e : e # <<>>)
    IN  IF es = <<>> THEN <<>> ELSE Clean(JoinElements(es))

\* "", "d", "/d/", "/d/.."
PathInputs == { <<>>, <<100>>, <<47, 100, 47>>, <<47, 100, 47, 46, 46>> }

\* The database directories these storage paths name.
DbDirs == {Join(<<p, dbdir>>) : p \in PathInputs}

NoBuckets == [b \in {} |-> {}]
NoStore == [dir |-> FALSE, file |-> FALSE, buckets |-> NoBuckets, locked |-> FALSE]

\* A store that an earlier run of the program initialised and filled.
OldStore ==
    [dir |-> TRUE, file |-> TRUE, locked |-> FALSE,
     buckets |-> (<<dbsysname>> :> {}) @@ (<<dbsysname, dbnsdefsname>> :> {"sales"})
                 @@ (<<dbsysname, dbetdefsname>> :> {"order"})]

\* Bucket.CreateBucketIfNotExists
CreateBucketIfNotExists(buckets, path) ==
    IF path \in DOMAIN buckets THEN buckets ELSE buckets @@ (path :> {})

\* The function initDB hands to Update: _sys, _sys/nsdefs, _sys/etdefs.
SetUpCatalogues(buckets) ==
    CreateBucketIfNotExists(
        CreateBucketIfNotExists(CreateBucketIfNotExists(buckets, <<dbsysname>>),
                                <<dbsysname, dbnsdefsname>>),
        <<dbsysname, dbetdefsname>>)

\* InitDB's checks of its argument without the test for an absolute path.
CheckPath_NoAbsCheck(p) == IF p = <<>> THEN "ErrPathEmpty" ELSE "nil"

\* InitDB's checks of its argument.
CheckPath(p) ==
    IF p = <<>> THEN "ErrPathEmpty"
    ELSE IF ~IsAbs(p) THEN "ErrPathNotAbsolute"
    ELSE "nil"

\* A Once that runs its function whenever it is asked to.
OnceShouldRun_Always(o) == TRUE

\* sync.Once.Do, under o.m: f runs if o.done is still 0.
OnceShouldRun(o) == ~o.done

NilDB == [nil |-> TRUE, file |-> <<>>, open |-> FALSE]
NoDbRet == [op |-> "none", p |-> <<>>, err |-> "nil", handle |-> "nil", open |-> FALSE]

\* A goroutine's locals: InitDB's p; initDB's and instance's fn; the values
\* a call has in hand before it stores or uses them (err, and db: what
\* bolt.Open answered, or the theDB.db a method call has read as its
\* receiver); and the receiver of initDB's deferred Close (deferred).
NoDbLocal == [p |-> <<>>, fn |-> <<>>, err |-> "nil", db |-> NilDB, deferred |-> NilDB]

DbInit ==
    /\ storageDir = <<>>
    /\ dberr = "nil"
    /\ theDB = [db |-> NilDB]
    /\ onceDB = [done |-> FALSE, m |-> 0]
    /\ dpc = [t \in Threads |-> "idle"]
    /\ dlocal = [t \in Threads |-> NoDbLocal]
    /\ disk = [d \in DbDirs |-> IF d = Join(<<<<>>, dbdir>>) THEN [NoStore EXCEPT !.dir = TRUE]
                                   ELSE IF d = <<ChSlash>> \o dbdir THEN OldStore
                                   ELSE NoStore]
    /\ dbRet = NoDbRet
    /\ instanceRuns = 0
    /\ firstErr = "nil"
    /\ dcalls = 0

DbIdle ==
    /\ storageDir = <<>>
    /\ dberr = "nil"
    /\ theDB = [db |-> NilDB]
    /\ onceDB = [done |-> FALSE, m |-> 0]
    /\ dpc = [t \in Threads |-> "idle"]
    /\ dlocal = [t \in Threads |-> NoDbLocal]
    /\ disk = [d \in DbDirs |-> NoStore]
    /\ dbRet = NoDbRet
    /\ instanceRuns = 0
    /\ firstErr = "nil"
    /\ dcalls = 0

\* os.MkdirAll(fn, 0700): [err, disk]; it succeeds on a directory that exists.
MkdirAll(d, fn, ok) ==
    IF d[fn].dir \/ ok THEN [err |-> "nil", disk |-> [d EXCEPT ![fn].dir = TRUE]]
    ELSE [err |-> "MkdirAll error", disk |-> d]

\* The database directory that holds the database file.
DirOf(file) == CHOOSE dir \in DbDirs : Join(<<dir, dbname>>) = file

\* Whether bolt.Open(file) can return now: a failing open returns at once,
\* an open that succeeds has waited for the file's lock.
BoltOpenReturns(d, file, ok) == ~d[DirOf(file)].dir \/ ~ok \/ ~d[DirOf(file)].locked

\* bolt.Open(file, 0600, nil): [err, db, disk].  The file is created if
\* absent, and locked; a failed open answers a nil *bolt.DB.
BoltOpen(d, file, ok) ==
    IF ~d[DirOf(file)].dir \/ ~ok
    THEN [err |-> "bolt.Open error", db |-> NilDB, disk |-> d]
    ELSE [err |-> "nil",
          db |-> [nil |-> FALSE, file |-> file, open |-> TRUE],
          disk |-> [d EXCEPT ![DirOf(file)].file = TRUE, ![DirOf(file)].locked = TRUE]]

\* What closing the handle h makes of the pointer x: a copy of h is closed.
AfterClose(x, h) ==
    IF ~x.nil /\ x.open /\ h.open /\ x.file = h.file THEN [x EXCEPT !.open = FALSE] ELSE x

\* A nil-pointer dereference panics in goroutine t.  Nothing recovers: once
\* the goroutine's deferred calls have run the runtime ends the program,
\* and until it does the other goroutines go on.
Panic(t) == dpc' = [dpc EXCEPT ![t] = "fatal"]

\* (*bolt.DB).Close on the non-nil handle h, called by goroutine t, whose
\* locals become lt: the file lock is released; a closed handle is left as
\* it is.
BoltClose(t, h, lt) ==
    /\ theDB' = [db |-> AfterClose(theDB.db, h)]
    /\ dlocal' = [u \in Threads |->
                     LET l == IF u = t THEN lt ELSE dlocal[u]
                     IN  [l EXCEPT !.db = AfterClose(@, h), !.deferred = AfterClose(@, h)]]
    /\ disk' = IF h.open THEN [disk EXCEPT ![DirOf(h.file)].locked = FALSE] ELSE disk

\* InitDB, lines 65-70: an empty or a relative path is answered at once.
InitDBReject(t, p) ==
    /\ dpc[t] = "idle"
    /\ dcalls < MaxCalls
    /\ dcalls' = dcalls + 1
    /\ CheckPath(p) # "nil"
    /\ dbRet' = [NoDbRet EXCEPT !.op = "InitDB", !.p = p, !.err = CheckPath(p)]
    /\ UNCHANGED <<storageDir, dberr, theDB, onceDB, dpc, dlocal, disk, instanceRuns, firstErr>>

\* InitDB, line 72: storageDir = p
InitDBStart(t, p) ==
    /\ dpc[t] = "idle"
    /\ dcalls < MaxCalls
    /\ dcalls' = dcalls + 1
    /\ CheckPath(p) = "nil"
    /\ storageDir' = p
    /\ dlocal' = [dlocal EXCEPT ![t] = [NoDbLocal EXCEPT !.p = p]]
    /\ dpc' = [dpc EXCEPT ![t] = "initDB_reset"]
    /\ UNCHANGED <<dberr, theDB, onceDB, disk, dbRet, instanceRuns, firstErr>>

\* initDB, line 79: dberr = nil
InitDBReset(t) ==
    /\ dpc[t] = "initDB_reset"
    /\ dberr' = "nil"
    /\ dpc' = [dpc EXCEPT ![t] = "initDB_join"]
    /\ UNCHANGED <<storageDir, theDB, onceDB, dlocal, disk, dbRet, instanceRuns, firstErr, dcalls>>

\* initDB, line 82: fn := path.Join(storageDir, dbdir)
InitDBJoin(t) ==
    /\ dpc[t] = "initDB_join"
    /\ dlocal' = [dlocal EXCEPT ![t].fn = Join(<<storageDir, dbdir>>)]
    /\ dpc' = [dpc EXCEPT ![t] = "initDB_mkdir"]
    /\ UNCHANGED <<storageDir, dberr, theDB, onceDB, disk, dbRet, instanceRuns, firstErr, dcalls>>

\* initDB, lines 83-84 and 90: err := os.MkdirAll(fn, 0700); if err != nil;
\* fn = path.Join(fn, dbname)
InitDBMkdir(t, mkOK) ==
    /\ dpc[t] = "initDB_mkdir"
    /\ LET mk == MkdirAll(disk, dlocal[t].fn, mkOK)
       IN  /\ disk' = mk.disk
           /\ dlocal' = [dlocal EXCEPT ![t].fn = IF mk.err = "nil"
                                                  THEN Join(<<dlocal[t].fn, dbname>>)
                                                  ELSE <<>>,
                                         ![t].err = mk.err]
           /\ dpc' = [dpc EXCEPT ![t] = IF mk.err # "nil" THEN "initDB_seterr"
                                        ELSE "initDB_open"]
    /\ UNCHANGED <<storageDir, dberr, theDB, onceDB, dbRet, instanceRuns, firstErr, dcalls>>

\* initDB, lines 85-86: dberr = err; return
InitDBSetErr(t) ==
    /\ dpc[t] = "initDB_seterr"
    /\ dberr' = dlocal[t].err
    /\ dlocal' = [dlocal EXCEPT ![t].err = "nil"]
    /\ dpc' = [dpc EXCEPT ![t] = "InitDB_return"]
    /\ UNCHANGED <<storageDir, theDB, onceDB, disk, dbRet, instanceRuns, firstErr, dcalls>>

\* initDB, line 91, the call: bolt.Open(fn, 0600, nil) answers its two
\* values.
InitDBOpen(t, openOK) ==
    /\ dpc[t] = "initDB_open"
    /\ LET o == BoltOpen(disk, dlocal[t].fn, openOK)
       IN  /\ BoltOpenReturns(disk, dlocal[t].fn, openOK)
           /\ dlocal' = [dlocal EXCEPT ![t].fn = <<>>, ![t].db = o.db, ![t].err = o.err]
           /\ disk' = o.disk
    /\ dpc' = [dpc EXCEPT ![t] = "initDB_storedb"]
    /\ UNCHANGED <<storageDir, dberr, theDB, onceDB, dbRet, instanceRuns, firstErr, dcalls>>

\* initDB, line 91, the first assignment: theDB.db = the *bolt.DB answered
InitDBStoreDB(t) ==
    /\ dpc[t] = "initDB_storedb"
    /\ theDB' = [db |-> dlocal[t].db]
    /\ dlocal' = [dlocal EXCEPT ![t].db = NilDB]
    /\ dpc' = [dpc EXCEPT ![t] = "initDB_storeerr"]
    /\ UNCHANGED <<storageDir, dberr, onceDB, disk, dbRet, instanceRuns, firstErr, dcalls>>

\* initDB, line 91, the second assignment: dberr = the error answered
InitDBStoreErr(t) ==
    /\ dpc[t] = "initDB_storeerr"
    /\ dberr' = dlocal[t].err
    /\ dlocal' = [dlocal EXCEPT ![t].err = "nil"]
    /\ dpc' = [dpc EXCEPT ![t] = "initDB_check"]
    /\ UNCHANGED <<storageDir, theDB, onceDB, disk, dbRet, instanceRuns, firstErr, dcalls>>

\* initDB, lines 92-94: if dberr != nil { return }
InitDBCheck(t) ==
    /\ dpc[t] = "initDB_check"
    /\ dpc' = [dpc EXCEPT ![t] = IF dberr # "nil" THEN "InitDB_return" ELSE "initDB_defer"]
    /\ UNCHANGED <<storageDir, dberr, theDB, onceDB, dlocal, disk, dbRet, instanceRuns, firstErr, dcalls>>

\* initDB, line 95: defer theDB.db.Close(); the receiver is evaluated now.
InitDBDefer(t) ==
    /\ dpc[t] = "initDB_defer"
    /\ dlocal' = [dlocal EXCEPT ![t].deferred = theDB.db]
    /\ dpc' = [dpc EXCEPT ![t] = "initDB_recv"]
    /\ UNCHANGED <<storageDir, dberr, theDB, onceDB, disk, dbRet, instanceRuns, firstErr, dcalls>>

\* initDB, line 98, the receiver: theDB.db is read
InitDBUpdateRecv(t) ==
    /\ dpc[t] = "initDB_recv"
    /\ dlocal' = [dlocal EXCEPT ![t].db = theDB.db]
    /\ dpc' = [dpc EXCEPT ![t] = "initDB_update"]
    /\ UNCHANGED <<storageDir, dberr, theDB, onceDB, disk, dbRet, instanceRuns, firstErr, dcalls>>

\* initDB, lines 98-113, the call: Update(...) on the receiver read, the
\* catalogues set up in one transaction.  A nil receiver panics, and the
\* goroutine begins to unwind; a closed handle answers bolt's
\* ErrDatabaseNotOpen.
InitDBUpdate(t, updOK) ==
    /\ dpc[t] = "initDB_update"
    /\ LET h == dlocal[t].db
       IN  IF h.nil
           THEN /\ dpc' = [dpc EXCEPT ![t] = "initDB_unwind"]
                /\ UNCHANGED <<dlocal, disk>>
           ELSE /\ dpc' = [dpc EXCEPT ![t] = "initDB_setupd"]
                /\ IF ~h.open
                   THEN /\ dlocal' = [dlocal EXCEPT ![t].db = NilDB,
                                                     ![t].err = "database not open"]
                        /\ disk' = disk
                   ELSE IF updOK
                   THEN /\ dlocal' = [dlocal EXCEPT ![t].db = NilDB, ![t].err = "nil"]
                        /\ disk' = [disk EXCEPT ![DirOf(h.file)].buckets = SetUpCatalogues(@)]
                   ELSE /\ dlocal' = [dlocal EXCEPT ![t].db = NilDB, ![t].err = "Update error"]
                        /\ disk' = disk
    /\ UNCHANGED <<storageDir, dberr, theDB, onceDB, dbRet, instanceRuns, firstErr, dcalls>>

\* The panic of line 98 unwinds initDB: the Close deferred at line 95 runs
\* on the receiver evaluated there (a nil one panics in its turn).
InitDBUnwind(t) ==
    /\ dpc[t] = "initDB_unwind"
    /\ IF dlocal[t].deferred.nil
       THEN UNCHANGED <<theDB, dlocal, disk>>
       ELSE BoltClose(t, dlocal[t].deferred, [dlocal[t] EXCEPT !.deferred = NilDB])
    /\ Panic(t)
    /\ UNCHANGED <<storageDir, dberr, onceDB, dbRet, instanceRuns, firstErr, dcalls>>

\* initDB, line 98, the assignment: dberr = what Update answered
InitDBSetUpdateErr(t) ==
    /\ dpc[t] = "initDB_setupd"
    /\ dberr' = dlocal[t].err
    /\ dlocal' = [dlocal EXCEPT ![t].err = "nil"]
    /\ dpc' = [dpc EXCEPT ![t] = "initDB_close"]
    /\ UNCHANGED <<storageDir, theDB, onceDB, disk, dbRet, instanceRuns, firstErr, dcalls>>

\* initDB's deferred theDB.db.Close(), on the receiver line 95 evaluated
InitDBDeferredClose(t) ==
    /\ dpc[t] = "initDB_close"
    /\ IF dlocal[t].deferred.nil
       THEN /\ Panic(t)
            /\ UNCHANGED <<theDB, dlocal, disk, dbRet>>
       ELSE /\ BoltClose(t, dlocal[t].deferred, [dlocal[t] EXCEPT !.deferred = NilDB])
            /\ dpc' = [dpc EXCEPT ![t] = "InitDB_return"]
            /\ dbRet' = dbRet
    /\ UNCHANGED <<storageDir, dberr, onceDB, instanceRuns, firstErr, dcalls>>

\* InitDB, line 75: return dberr
InitDBReturn(t) ==
    /\ dpc[t] = "InitDB_return"
    /\ dbRet' = [NoDbRet EXCEPT !.op = "InitDB", !.p = dlocal[t].p, !.err = dberr]
    /\ firstErr' = IF dberr = "nil" THEN "nil" ELSE firstErr
    /\ dlocal' = [dlocal EXCEPT ![t] = NoDbLocal]
    /\ dpc' = [dpc EXCEPT ![t] = "idle"]
    /\ UNCHANGED <<storageDir, dberr, theDB, onceDB, disk, instanceRuns, dcalls>>

\* DbInstance, line 120: onceDB.Do(instance) loads o.done; done, it returns.
DbInstanceDo(t) ==
    /\ dpc[t] = "idle"
    /\ dcalls < MaxCalls
    /\ dcalls' = dcalls + 1
    /\ dpc' = [dpc EXCEPT ![t] = IF onceDB.done THEN "DbInstance_check" ELSE "Once_lock"]
    /\ UNCHANGED <<storageDir, dberr, theDB, onceDB, dlocal, disk, dbRet, instanceRuns, firstErr>>

\* sync.Once.Do: o.m.Lock()
OnceLock(t) ==
    /\ dpc[t] = "Once_lock"
    /\ onceDB.m = 0
    /\ onceDB' = [onceDB EXCEPT !.m = t]
    /\ dpc' = [dpc EXCEPT ![t] = "Once_slow"]
    /\ UNCHANGED <<storageDir, dberr, theDB, dlocal, disk, dbRet, instanceRuns, firstErr, dcalls>>

\* sync.Once.Do under o.m: if o.done is 0, instance() starts (line 129:
\* fn := path.Join(storageDir, dbdir, dbname)); otherwise o.m.Unlock().
OnceSlow(t) ==
    /\ dpc[t] = "Once_slow"
    /\ IF OnceShouldRun(onceDB)
       THEN /\ dlocal' = [dlocal EXCEPT ![t].fn = Join(<<storageDir, dbdir, dbname>>)]
            /\ dpc' = [dpc EXCEPT ![t] = "instance_open"]
            /\ onceDB' = onceDB
       ELSE /\ dlocal' = dlocal
            /\ dpc' = [dpc EXCEPT ![t] = "DbInstance_check"]
            /\ onceDB' = [onceDB EXCEPT !.m = 0]
    /\ UNCHANGED <<storageDir, dberr, theDB, disk, dbRet, instanceRuns, firstErr, dcalls>>

\* instance(), line 130, the call: bolt.Open(fn, 0600, nil) answers its two
\* values.
InstanceOpen(t, openOK) ==
    /\ dpc[t] = "instance_open"
    /\ LET o == BoltOpen(disk, dlocal[t].fn, openOK)
       IN  /\ BoltOpenReturns(disk, dlocal[t].fn, openOK)
           /\ dlocal' = [dlocal EXCEPT ![t].fn = <<>>, ![t].db = o.db, ![t].err = o.err]
           /\ disk' = o.disk
           /\ firstErr' = o.err
    /\ instanceRuns' = instanceRuns + 1
    /\ dpc' = [dpc EXCEPT ![t] = "instance_storedb"]
    /\ UNCHANGED <<storageDir, dberr, theDB, onceDB, dbRet, dcalls>>

\* instance(), line 130, the first assignment: theDB.db = the *bolt.DB answered
InstanceStoreDB(t) ==
    /\ dpc[t] = "instance_storedb"
    /\ theDB' = [db |-> dlocal[t].db]
    /\ dlocal' = [dlocal EXCEPT ![t].db = NilDB]
    /\ dpc' = [dpc EXCEPT ![t] = "instance_storeerr"]
    /\ UNCHANGED <<storageDir, dberr, onceDB, disk, dbRet, instanceRuns, firstErr, dcalls>>

\* instance(), lines 130-133, the second assignment: dberr = the error
\* answered; instance returns.
InstanceStoreErr(t) ==
    /\ dpc[t] = "instance_storeerr"
    /\ dberr' = dlocal[t].err
    /\ dlocal' = [dlocal EXCEPT ![t].err = "nil"]
    /\ dpc' = [dpc EXCEPT ![t] = "Once_done"]
    /\ UNCHANGED <<storageDir, theDB, onceDB, disk, dbRet, instanceRuns, firstErr, dcalls>>

\* sync.Once.Do, deferred after f has returned: o.done = 1
OnceDone(t) ==
    /\ dpc[t] = "Once_done"
    /\ onceDB' = [onceDB EXCEPT !.done = TRUE]
    /\ dpc' = [dpc EXCEPT ![t] = "Once_unlock"]
    /\ UNCHANGED <<storageDir, dberr, theDB, dlocal, disk, dbRet, instanceRuns, firstErr, dcalls>>

\* sync.Once.Do, deferred: o.m.Unlock()
OnceUnlock(t) ==
    /\ dpc[t] = "Once_unlock"
    /\ onceDB' = [onceDB EXCEPT !.m = 0]
    /\ dpc' = [dpc EXCEPT ![t] = "DbInstance_check"]
    /\ UNCHANGED <<storageDir, dberr, theDB, dlocal, disk, dbRet, instanceRuns, firstErr, dcalls>>

\* DbInstance, lines 121 and 125: if dberr != nil ...; return &theDB, nil
DbInstanceCheck(t) ==
    /\ dpc[t] = "DbInstance_check"
    /\ IF dberr # "nil"
       THEN /\ dpc' = [dpc EXCEPT ![t] = "DbInstance_reterr"]
            /\ dbRet' = dbRet
       ELSE /\ dpc' = [dpc EXCEPT ![t] = "idle"]
            /\ dbRet' = [NoDbRet EXCEPT !.op = "DbInstance", !.handle = "&theDB",
                                        !.open = ~theDB.db.nil /\ theDB.db.open]
    /\ UNCHANGED <<storageDir, dberr, theDB, onceDB, dlocal, disk, instanceRuns, firstErr, dcalls>>

\* DbInstance, line 122: return nil, dberr
DbInstanceReturnErr(t) ==
    /\ dpc[t] = "DbInstance_reterr"
    /\ dbRet' = [NoDbRet EXCEPT !.op = "DbInstance", !.err = dberr]
    /\ dpc' = [dpc EXCEPT ![t] = "idle"]
    /\ UNCHANGED <<storageDir, dberr, theDB, onceDB, dlocal, disk, instanceRuns, firstErr, dcalls>>

\* (*DB).Close, line 138, the receiver: theDB.db is read, whatever DB the
\* method was called on.
DbCloseRecv(t) ==
    /\ dpc[t] = "idle"
    /\ dcalls < MaxCalls
    /\ dcalls' = dcalls + 1
    /\ dlocal' = [dlocal EXCEPT ![t].db = theDB.db]
    /\ dpc' = [dpc EXCEPT ![t] = "Close_call"]
    /\ UNCHANGED <<storageDir, dberr, theDB, onceDB, disk, dbRet, instanceRuns, firstErr>>

\* (*DB).Close, line 138, the call: Close() on the receiver read.  A nil
\* receiver panics; closing a closed handle does nothing.
DbClose(t) ==
    /\ dpc[t] = "Close_call"
    /\ IF dlocal[t].db.nil
       THEN /\ Panic(t)
            /\ UNCHANGED <<theDB, dlocal, disk, dbRet>>
       ELSE /\ BoltClose(t, dlocal[t].db, NoDbLocal)
            /\ dpc' = [dpc EXCEPT ![t] = "idle"]
            /\ dbRet' = [NoDbRet EXCEPT !.op = "Close"]
    /\ UNCHANGED <<storageDir, dberr, onceDB, instanceRuns, firstErr, dcalls>>

\* The runtime ends the program after goroutine t's panic has unwound its
\* stack: no goroutine takes another step.
ProgramExit(t) ==
    /\ dpc[t] = "fatal"
    /\ dpc' = [u \in Threads |-> "dead"]
    /\ dbRet' = [NoDbRet EXCEPT !.op = "panic"]
    /\ UNCHANGED <<storageDir, dberr, theDB, onceDB, dlocal, disk, instanceRuns, firstErr, dcalls>>

(***************************************************************************)
(* The naming rule as the documentation states it (NewNamespace's comment):*)
(* length 2 or more; only lowercase ASCII letters, digits, hyphens and    *)
(* underscores; begins and ends with a letter or a digit.                 *)
(***************************************************************************)
NamingRule(s) ==
    /\ Len(s) >= 2
    /\ \A i \in 1..Len(s) : s[i] \in ChLower \cup ChDigits \cup {ChHyphen, ChUnderscore}
    /\ s[1] \in ChLower \cup ChDigits
    /\ s[Len(s)] \in ChLower \cup ChDigits

\* The number of fields the registry held in the initial state.
InitialCount == LenFields(fields) - Len(addLog)

\* Lock excludes every other holder; checked beside the claims.
MutualExclusion ==
    /\ \A t \in Threads : pc[t] \in {"AddField_check", "AddField_insert"} <=> mutexW = t
    /\ \A t \in Threads : pc[t] \in {"Field_read", "Fields_read"} <=> t \in mutexR
    /\ mutexW # 0 => mutexR = {}

\* Below the 256th field the IDs are sequential; checked beside the claims.
SequentialBelow256 ==
    \A k \in 1..Len(addLog) :
        InitialCount + k <= 255 => addLog[k].ID = InitialCount + k

(***************************************************************************)
(* C1: the k-th successful AddField call on an entity type assigns the    *)
(* field ID k, the count of existing fields plus one, so the IDs are      *)
(* 1, 2, 3, ... in call order.                                            *)
(***************************************************************************)
C1_SequentialIDs ==
    \A k \in 1..Len(addLog) : addLog[k].ID = InitialCount + k

(***************************************************************************)
(* C2: in every reachable state the registry holds at most 255 fields and *)
(* every registered FieldDefn has an ID in 1..255, never 0.               *)
(***************************************************************************)
C2_AtMost255NonZeroIDs ==
    /\ LenFields(fields) <= 255
    /\ \A nm \in DOMAIN fields : fields[nm].ID \in 1..255

(***************************************************************************)
(* C3: schema evolution is append-only: a field once added stays          *)
(* registered under its name with the ID and type it was given, Field     *)
(* returns exactly that definition, and its ID is never assigned to       *)
(* another field of the entity type.                                      *)
(***************************************************************************)
C3_AppendOnly ==
    /\ \A k \in 1..Len(addLog) :
          /\ addLog[k].Name \in DOMAIN fields
          /\ fields[addLog[k].Name] = addLog[k]
    /\ (ret.op = "Field" /\ ret.err = "nil")
          => /\ ret.name \in DOMAIN fields
             /\ ret.fd = fields[ret.name]
    \* no two fields share an ID: as many IDs as fields
    /\ Cardinality({fields[nm].ID : nm \in DOMAIN fields}) = LenFields(fields)

(***************************************************************************)
(* C4: a failing AddField is an all-or-nothing no-op: a name violating    *)
(* the naming rule yields ErrNameInvalid, an unrecognised or zero         *)
(* FieldType yields ErrFieldTypeUnknown, an already registered name       *)
(* yields ErrNameExists even when the type differs, and the registered    *)
(* fields change only in the step that completes a successful AddField.   *)
(***************************************************************************)
C4_ErrorKinds ==
    ret.op = "AddField" =>
        /\ ~NamingRule(ret.name) => ret.err = "ErrNameInvalid"
        /\ (NamingRule(ret.name) /\ ret.ftype \notin FieldTypeBool..FieldTypeCollection)
              => ret.err = "ErrFieldTypeUnknown"
        /\ (NamingRule(ret.name) /\ ret.ftype \in FieldTypeBool..FieldTypeCollection)
              => /\ ret.err \in {"nil", "ErrNameExists"}
                 /\ ret.name \in DOMAIN fields
                 /\ ret.err = "nil" => ret.fd = fields[ret.name]

C4_FailureChangesNothing ==
    /\ (ret' # ret /\ ret'.op = "AddField" /\ ret'.err # "nil")
          => fields' = fields /\ addLog' = addLog
    /\ \A t \in Threads :
          (pc[t] = "AddField_check" /\ pc'[t] # pc[t] /\ local[t].name \in DOMAIN fields)
              => /\ ret'.op = "AddField" /\ ret'.name = local[t].name
                 /\ ret'.err = "ErrNameExists" /\ fields' = fields
    /\ fields' # fields =>
          \E t \in Threads :
              /\ pc[t] = "AddField_insert" /\ pc'[t] = "idle"
              /\ ret'.op = "AddField" /\ ret'.name = local[t].name /\ ret'.err = "nil"
              /\ \A nm \in DOMAIN fields : nm \in DOMAIN fields' /\ fields'[nm] = fields[nm]

C4_FailedAddIsNoOp == [] C4_ErrorKinds /\ [][C4_FailureChangesNothing]_vars

\* An AddField of a registered name with another type has returned ErrNameExists.
C4_Witness ==
    /\ ret.op = "AddField" /\ ret.err = "ErrNameExists"
    /\ ret.name \in DOMAIN fields
    /\ fields[ret.name].Ftype # ret.ftype

(***************************************************************************)
(* C5: under any interleaving, the duplicate check and the ID assignment  *)
(* of AddField are one atomic step: n adds of distinct names yield the    *)
(* IDs {1..n}, a name is added at most once, a Field result is either     *)
(* not-found or a complete definition, and a Fields result is exactly the *)
(* set of fields with IDs 1..k for some k.                                *)
(***************************************************************************)
C5_AtomicAdds ==
    /\ {fields[nm].ID : nm \in DOMAIN fields} = 1..LenFields(fields)
    /\ \A j, k \in 1..Len(addLog) : j # k => addLog[j].Name # addLog[k].Name
    /\ ret.op = "Field" =>
          \/ ret.err = "ErrNameUnknown" /\ ret.fd = ZeroFieldDefn
          \/ /\ ret.err = "nil"
             /\ ret.fd.Name = ret.name
             /\ ret.fd.Ftype \in FieldTypeBool..FieldTypeCollection
    /\ ret.op = "Fields" =>
          /\ {fd.ID : fd \in ret.fds} = 1..Cardinality(ret.fds)
          /\ \A fd \in ret.fds : fd.Name \in DOMAIN fields /\ fields[fd.Name] = fd

\* ReadFrom has read from a reader opened on exactly the bytes WriteTo wrote.
RoundTripRead == cpc = "read" /\ wres.err = "nil" /\ rdr.s = out

(***************************************************************************)
(* C6: string round trip: a FieldString holding v, written with WriteTo   *)
(* and read back with ReadFrom into a fresh FieldString, yields           *)
(* Get() = v; the empty string writes no byte, and a non-empty string is  *)
(* written as its length in two big-endian bytes followed by its bytes.   *)
(***************************************************************************)
C6_StringRoundTrip ==
    ftag = "string" =>
        /\ wres.err = "nil" =>
              out = IF src = <<>> THEN <<>>
                    ELSE <<Len(src) \div 256, Len(src) % 256>> \o src
        /\ RoundTripRead => GetValue(ftag, dst) = GetValue(ftag, src)

(***************************************************************************)
(* C7: fixed-width round trip: for bool, the integers and the floats,     *)
(* WriteTo emits exactly 1, 1/2/4/8 bytes, the value's pattern in         *)
(* big-endian order, and ReadFrom of those bytes into a fresh field       *)
(* yields Get() = v; a bool byte reads as false iff it is 0.              *)
(***************************************************************************)
ClaimedWidth(k) ==
    CASE k = "bool" -> 1
      [] k \in {"int8", "uint8"} -> 1
      [] k \in {"int16", "uint16"} -> 2
      [] k \in {"int32", "uint32", "float32"} -> 4
      [] k \in {"int64", "uint64", "float64"} -> 8

IsBigEndianOf(k, v, bs) ==
    IF k \in WordKinds
    THEN \A j \in 1..Len(v) : v[j] = bs[2 * j - 1] * 256 + bs[2 * j]
    ELSE \A i \in 1..Len(bs) : bs[i] = (v \div Pow256(Len(bs) - i)) % 256

C7_FixedWidthRoundTrip ==
    ftag \in FixedKinds =>
        /\ cpc \in {"written", "opened", "read"} /\ wres # NoResult =>
              /\ wres = [n |-> ClaimedWidth(ftag), err |-> "nil"]
              /\ Len(out) = ClaimedWidth(ftag)
              /\ IsBigEndianOf(ftag, src, out)
        /\ RoundTripRead =>
              /\ rres = [n |-> ClaimedWidth(ftag), err |-> "nil"]
              /\ GetValue(ftag, dst) = GetValue(ftag, src)
              /\ setArg # <<>> => GetValue(ftag, dst) = setArg[1]
        /\ (ftag = "bool" /\ cpc = "read" /\ rres.err = "nil") =>
              (GetValue(ftag, dst) = FALSE <=> rdr.s[1] = 0)

\* An int32 0x01020304 went out as 01 02 03 04 and came back.
C7_Witness ==
    /\ ftag = "int32" /\ RoundTripRead
    /\ setArg = <<16909060>> /\ out = <<1, 2, 3, 4>>
    /\ rres.err = "nil" /\ dst = 16909060

(***************************************************************************)
(* C8: a short read is always an error: when the stream holds fewer bytes *)
(* than the value's encoding requires (a string whose length prefix       *)
(* announces more bytes than remain, a timestamp of fewer than 15 bytes), *)
(* ReadFrom returns a non-nil error.                                      *)
(***************************************************************************)
IsShortStream(k, s) ==
    CASE k = "string" -> Len(s) < 2 \/ Len(s) < 2 + (s[1] * 256 + s[2])
      [] k = "time" -> Len(s) < 15
      [] OTHER -> Len(s) < ClaimedWidth(k)

C8_ShortReadIsError ==
    (cpc = "read" /\ IsShortStream(ftag, rdr.s)) => rres.err # "nil"

(***************************************************************************)
(* C9: oversize rejection: FieldString.Set(v) with len(v) > 65535 returns *)
(* and leaves the held value unchanged, Set(v) with len(v) <= 65535 makes *)
(* Get() return v; so the held value never exceeds 65535 bytes.           *)
(***************************************************************************)
C9_SetStep ==
    (ftag = "string" /\ cpc \in {"new", "set"} /\ cpc' = "set") =>
        /\ Len(setArg'[1]) > 65535 => src' = src /\ logged'
        /\ Len(setArg'[1]) <= 65535 => GetValue(ftag, src') = setArg'[1] /\ ~logged'

C9_OversizeSetRejected ==
    [] (ftag = "string" => Len(src) <= 65535) /\ [][C9_SetStep]_vars

\* A Set of 65536 bytes was ignored by a field holding "ab".
C9_Witness ==
    /\ ftag = "string" /\ cpc = "set"
    /\ Len(setArg[1]) = 65536
    /\ src = <<97, 98>>
    /\ logged

(***************************************************************************)
(* C10: name validation accepts a name iff it has length >= 2, consists   *)
(* only of lowercase ASCII letters, digits, '-' and '_', and starts and   *)
(* ends with a letter or digit; "ab" and "a1-b_2" are accepted, "", "A",  *)
(* "-ab", "ab-" and "a" are rejected; NewNamespace, NewEntityTypeDefn and *)
(* AddField decide identically.  A name can be accepted only by a program *)
(* that runs: the package's variables have been initialised.              *)
(***************************************************************************)
AcceptedNames == { <<97, 98>>, <<97, 49, 45, 98, 95, 50>> }
RejectedNames == { <<>>, <<65>>, <<45, 97, 98>>, <<97, 98, 45>>, <<97>> }

\* Whether each of the three that has been called accepted nameArg.
C10_Verdicts ==
    (IF nsRes.called THEN {nsRes.err = "nil"} ELSE {})
    \cup (IF etRes.called THEN {etRes.err = "nil"} ELSE {})
    \cup (IF ret.op = "AddField" THEN {ret.err = "nil"} ELSE {})

\* Each of the three that has been called decided as the naming rule says.
C10_VerdictsFollowRule ==
    \A accepted \in C10_Verdicts :
        /\ accepted <=> NamingRule(nameArg)
        /\ nameArg \in AcceptedNames => accepted
        /\ nameArg \in RejectedNames => ~accepted

C10_NameValidation ==
    /\ PackageInitialised
    /\ C10_VerdictsFollowRule

(***************************************************************************)
(* C11: EntityKey.Key() is exactly the 8-byte big-endian encoding of the  *)
(* ID, so key byte order equals numeric order: for all IDs a and b,       *)
(* a < b iff Key(a) is lexicographically less than Key(b); entities       *)
(* stored with IDs 1, 5, 3 are visited in key order 1, 3, 5.              *)
(***************************************************************************)
\* a < b for uint64 values given as words: the first word that differs decides.
LessU64(a, b) ==
    \E j \in 1..4 : a[j] < b[j] /\ \A i \in 1..(j - 1) : a[i] = b[i]

\* Byte i (1 = most significant) of a uint64 given as words.
ByteOfU64(id, i) ==
    IF i % 2 = 1 THEN id[(i + 1) \div 2] \div 256 ELSE id[i \div 2] % 256

LexLess(x, y) ==
    \E j \in 1..8 : x[j] < y[j] /\ \A i \in 1..(j - 1) : x[i] = y[i]

IsAscending(ids) == \A i, j \in 1..Len(ids) : i < j => LessU64(ids[i], ids[j])

KeySamples == [1..4 -> {0, 1, 256, 65535}]

C11_KeyOrder ==
    /\ \A k \in DOMAIN bucket :
          /\ Len(k) = 8
          /\ \A i \in 1..8 : k[i] = ByteOfU64(bucket[k], i)
    /\ \A k1, k2 \in DOMAIN bucket : LessU64(bucket[k1], bucket[k2]) <=> LexLess(k1, k2)
    /\ sres.err = "nil" => IsAscending(sres.visited)
    /\ (sres.err = "nil" /\ sopts.StartAt = ZeroWords(4) /\ sopts.Limit = 0)
          => {sres.visited[i] : i \in 1..Len(sres.visited)} = {bucket[k] : k \in DOMAIN bucket}
    /\ bucket = EmptyBucket =>
          \A a, b \in KeySamples : LessU64(a, b) <=> LexLess(Key(a), Key(b))

\* The entities 1, 5, 3 were stored in that order and a Search visited 1, 3, 5.
C11_Witness ==
    /\ putLog = << <<0, 0, 0, 1>>, <<0, 0, 0, 5>>, <<0, 0, 0, 3>> >>
    /\ sres.err = "nil"
    /\ sres.visited = << <<0, 0, 0, 1>>, <<0, 0, 0, 3>>, <<0, 0, 0, 5>> >>

(***************************************************************************)
(* C12: a storage initialisation failure is cached: once the first        *)
(* DbInstance call fails to open the store, every later DbInstance call   *)
(* returns that same error without attempting another open, for as long   *)
(* as no InitDB call has succeeded in between.                            *)
(***************************************************************************)
C12_SameErrorCached ==
    (dbRet.op = "DbInstance" /\ firstErr # "nil") =>
        /\ dbRet.err = firstErr
        /\ instanceRuns = 1

(***************************************************************************)
(* C13: under any number and any interleaving of concurrent DbInstance    *)
(* calls, DbInstance opens the backing store at most once and every       *)
(* successful call returns the same singleton handle.                     *)
(***************************************************************************)
\* At most one open by instance(); nobody is past Do before instance has
\* run to its end; a handle returned is the singleton.
C13_OneOpenOneHandle ==
    /\ instanceRuns <= 1
    /\ \A t \in Threads :
          dpc[t] \in {"DbInstance_check", "DbInstance_reterr"} => onceDB.done /\ instanceRuns = 1
    /\ dbRet.handle # "nil" => dbRet.handle = "&theDB" /\ instanceRuns = 1
    \* with DbInstance calls alone (no InitDB has begun), nil error means the handle
    /\ (dbRet.op = "DbInstance" /\ dbRet.err = "nil" /\ storageDir = <<>>)
          => dbRet.handle = "&theDB"

\* What a returning DbInstance call answers, in every run: the singleton
\* and a nil error when it found dberr nil; otherwise no handle and the
\* dberr it reads again, which is nil only if an InitDB call, the one other
\* writer of dberr, has begun.
C13_ReturnStep ==
    \A t \in Threads :
        /\ (dpc[t] = "DbInstance_check" /\ dpc'[t] = "idle")
              => dbRet' = [NoDbRet EXCEPT !.op = "DbInstance", !.handle = "&theDB",
                                          !.open = dbRet'.open]
        /\ (dpc[t] = "DbInstance_reterr" /\ dpc'[t] = "idle")
              => /\ dbRet'.op = "DbInstance" /\ dbRet'.handle = "nil"
                 /\ dbRet'.err = "nil" => storageDir # <<>>

C13_OpenedOnce == [] C13_OneOpenOneHandle /\ [][C13_ReturnStep]_vars

\* Two goroutines entered onceDB.Do before the store was open; one opened
\* it and returned the handle, the other then took the Once's mutex.
C13_Witness ==
    /\ \E t, u \in Threads : dpc[t] = "idle" /\ dpc[u] = "Once_slow"
    /\ dbRet.op = "DbInstance" /\ dbRet.handle = "&theDB" /\ dbRet.open
    /\ instanceRuns = 1 /\ storageDir = <<>>
    /\ dberr = "nil" /\ theDB.db.open

(***************************************************************************)
(* C14: timestamp round trip: FieldTime.WriteTo emits exactly 15 bytes    *)
(* encoding the UTC-normalised instant and reports 15 bytes written, and  *)
(* FieldTime.ReadFrom applied to those 15 bytes consumes them and         *)
(* reconstructs the same instant without error.                           *)
(***************************************************************************)
C14_TimeRoundTrip ==
    ftag = "time" =>
        /\ wres # NoResult =>
              /\ wres = [n |-> 15, err |-> "nil"]
              /\ Len(out) = 15
              /\ out[1] = 1
              /\ BytesToWords(SubSeq(out, 2, 9)) = src.sec
              /\ BytesToWords(SubSeq(out, 10, 13)) = src.nsec
              /\ out[14] = 255 /\ out[15] = 255
        /\ RoundTripRead =>
              /\ rres = [n |-> 15, err |-> "nil"]
              /\ rdr.i = 15
              /\ dst.sec = src.sec /\ dst.nsec = src.nsec

(***************************************************************************)
(* C15: reading a string field whose 2-byte length prefix is zero is      *)
(* never reported as success: FieldString.ReadFrom returns io.EOF and     *)
(* leaves the field's held value unchanged.                               *)
(***************************************************************************)
ZeroPrefixed(r) == Len(r.s) >= 2 /\ r.i = 0 /\ r.s[1] = 0 /\ r.s[2] = 0

C15_ReadStep ==
    (ftag = "string" /\ cpc = "opened" /\ cpc' \in {"read", "reread"} /\ ZeroPrefixed(rdr))
        => /\ rres'.err = "EOF"
           /\ src' = src
           /\ dst' = dst

C15_ZeroLengthIsEOF == [][C15_ReadStep]_vars

\* A FieldString holding "ab" read the bytes 00 00 61: io.EOF, still "ab".
C15_Witness ==
    /\ ftag = "string" /\ cpc = "reread"
    /\ rdr.s = <<0, 0, 97>>
    /\ rres.err = "EOF"
    /\ src = <<97, 98>>

(***************************************************************************)
(* C16: for every field type, the count returned by a successful ReadFrom *)
(* equals the number of bytes consumed from the stream, and the count     *)
(* returned by a successful WriteTo equals the number of bytes appended   *)
(* to the stream (for a string, the 2-byte length prefix included).       *)
(***************************************************************************)
C16_CountsMatchBytes ==
    /\ (wres # NoResult /\ wres.err = "nil") => wres.n = Len(out)
    /\ (cpc \in {"read", "reread"} /\ rres.err = "nil") => rres.n = rdr.i

(***************************************************************************)
(* C17: after InitDB(p) returns without error, the store contains the     *)
(* system bucket _sys with both sub-buckets nsdefs and etdefs; any later  *)
(* InitDB call neither removes them nor discards their existing contents. *)
(***************************************************************************)
CatalogueBuckets == { <<"_sys">>, <<"_sys", "nsdefs">>, <<"_sys", "etdefs">> }

\* The database directory of storage path p.
StoreOf(p) == Join(<<p, <<100, 98>>>>)

C17_BucketsKeptStep ==
    \A d \in DOMAIN disk : \A b \in DOMAIN disk[d].buckets :
        /\ b \in DOMAIN disk'[d].buckets
        /\ disk'[d].buckets[b] = disk[d].buckets[b]

C17_CataloguesCreatedAndKept ==
    /\ [] ((dbRet.op = "InitDB" /\ dbRet.err = "nil")
             => CatalogueBuckets \subseteq DOMAIN disk[StoreOf(dbRet.p)].buckets)
    /\ [][C17_BucketsKeptStep]_vars

(***************************************************************************)
(* C18: InitDB rejects an empty path with ErrPathEmpty and a non-absolute *)
(* path with ErrPathNotAbsolute before touching anything: the storage     *)
(* directory, the cached initialisation error and the singleton handle    *)
(* are unchanged and no directory or file is created or opened.           *)
(***************************************************************************)
C18_Verdict ==
    dbRet.op = "InitDB" =>
        /\ dbRet.p = <<>> => dbRet.err = "ErrPathEmpty"
        /\ (dbRet.p # <<>> /\ dbRet.p[1] # 47) => dbRet.err = "ErrPathNotAbsolute"
        /\ (dbRet.p # <<>> /\ dbRet.p[1] = 47)
              => dbRet.err \notin {"ErrPathEmpty", "ErrPathNotAbsolute"}

C18_RejectStep ==
    (dbRet' # dbRet /\ dbRet'.op = "InitDB" /\ (dbRet'.p = <<>> \/ dbRet'.p[1] # 47))
        => /\ dbRet'.err \in {"ErrPathEmpty", "ErrPathNotAbsolute"}
           /\ UNCHANGED <<storageDir, dberr, theDB, onceDB, disk, dpc, dlocal, instanceRuns>>

C18_BadPathRejected == [] C18_Verdict /\ [][C18_RejectStep]_vars

\* After InitDB("/d/") had succeeded, InitDB("d") was rejected and left the
\* storage directory "/d/".
C18_Witness ==
    /\ dbRet.op = "InitDB" /\ dbRet.p = <<100>> /\ dbRet.err = "ErrPathNotAbsolute"
    /\ \A t \in Threads : dpc[t] = "idle"
    /\ storageDir = <<47, 100, 47>>
    /\ dberr = "nil" /\ ~theDB.db.nil /\ ~theDB.db.open
    /\ CatalogueBuckets \subseteq DOMAIN disk[<<47, 100, 47, 100, 98>>].buckets

(***************************************************************************)
(* C19: Search visits records in ascending numeric ID order beginning at  *)
(* the first stored key >= opts.StartAt, returns the keys for which the   *)
(* predicate is true, and stops as soon as opts.Limit matches are         *)
(* collected (Limit 0 = unlimited): with Limit = 2 over 5 matching        *)
(* records it returns exactly the 2 matching keys with the smallest IDs   *)
(* >= StartAt.                                                            *)
(***************************************************************************)
StoredIDs == {bucket[k] : k \in DOMAIN bucket}
FromStartAt == {id \in StoredIDs : ~LessU64(id, sopts.StartAt)}
Matching == {id \in FromStartAt : sopts.pred = "all" \/ id[4] % 2 = 1}
Range(q) == {q[i] : i \in 1..Len(q)}

C19_SearchInOrderWithLimit ==
    sopts.pred \in Predicates =>
        /\ sres.err = "nil"
        \* the visit: ascending, from the first stored ID >= StartAt, without gaps
        /\ IsAscending(sres.visited)
        /\ Range(sres.visited) \subseteq FromStartAt
        /\ \A v \in Range(sres.visited) : \A id \in FromStartAt :
              LessU64(id, v) => id \in Range(sres.visited)
        \* the result: the matches among the visited, in order
        /\ IsAscending(sres.keys)
        /\ Range(sres.keys) = Range(sres.visited) \cap Matching
        \* the limit: all matches, or the Limit smallest of them, and no
        \* record visited after the last of these
        /\ Len(sres.keys) = IF sopts.Limit = 0 \/ Cardinality(Matching) <= sopts.Limit
                             THEN Cardinality(Matching) ELSE sopts.Limit
        /\ \A m \in Matching \ Range(sres.keys) : \A r \in Range(sres.keys) : LessU64(r, m)
        /\ (sopts.Limit # 0 /\ Len(sres.keys) = sopts.Limit)
              => sres.visited[Len(sres.visited)] = sres.keys[Len(sres.keys)]
        /\ (sopts.Limit = 0 \/ Len(sres.keys) < sopts.Limit)
              => Range(sres.visited) = FromStartAt

\* Five stored records all match; a Search with Limit 2 from StartAt 3
\* returned the keys 3 and 5.
C19_Witness ==
    /\ Cardinality(StoredIDs) = 5
    /\ sopts = [StartAt |-> <<0, 0, 0, 3>>, Limit |-> 2, pred |-> "all"]
    /\ sres.keys = << <<0, 0, 0, 3>>, <<0, 0, 0, 5>> >>
    /\ sres.visited = sres.keys

(***************************************************************************)
(* C20: for every sequence of InitDB, DbInstance and Close calls,         *)
(* whenever DbInstance returns a handle with a nil error, that handle's   *)
(* underlying database is currently open.                                 *)
(***************************************************************************)
C20_HandleIsOpen ==
    (dbRet.op = "DbInstance" /\ dbRet.err = "nil") => dbRet.open

(***************************************************************************)
(* C21: every name-accepting operation reports the same error kind for    *)
(* the same invalid name: the empty name is rejected with ErrNameEmpty by *)
(* NewNamespace, by NewEntityTypeDefn and by AddField alike, and every    *)
(* other rule-violating name with ErrNameInvalid.                         *)
(***************************************************************************)
\* The error each of the three that has been called answered for nameArg.
C21_Errors ==
    (IF nsRes.called THEN {nsRes.err} ELSE {})
    \cup (IF etRes.called THEN {etRes.err} ELSE {})
    \cup (IF ret.op = "AddField" THEN {ret.err} ELSE {})

C21_SameErrorKind ==
    ~NamingRule(nameArg) =>
        \A err \in C21_Errors :
            err = IF nameArg = <<>> THEN "ErrNameEmpty" ELSE "ErrNameInvalid"

Init == RegInit /\ CodecIdle /\ NamesQuiet /\ TableIdle /\ DbIdle

Next ==
    \E t \in Threads :
        \/ \E name \in NameInputs, ftype \in FieldTypeInputs :
              AddFieldReject(t, name, ftype) /\ UNCHANGED <<codecVars, nameVars, tableVars, dbVars>>
        \/ \E name \in NameInputs, ftype \in FieldTypeInputs :
              AddFieldLock(t, name, ftype) /\ UNCHANGED <<codecVars, nameVars, tableVars, dbVars>>
        \/ AddFieldCheck(t) /\ UNCHANGED <<codecVars, nameVars, tableVars, dbVars>>
        \/ AddFieldInsert(t) /\ UNCHANGED <<codecVars, nameVars, tableVars, dbVars>>
        \/ \E name \in NameInputs : FieldRLock(t, name) /\ UNCHANGED <<codecVars, nameVars, tableVars, dbVars>>
        \/ FieldRead(t) /\ UNCHANGED <<codecVars, nameVars, tableVars, dbVars>>
        \/ FieldsRLock(t) /\ UNCHANGED <<codecVars, nameVars, tableVars, dbVars>>
        \/ FieldsRead(t) /\ UNCHANGED <<codecVars, nameVars, tableVars, dbVars>>

Spec == Init /\ [][Next]_vars

InitCodec == CodecInit /\ RegIdle /\ NamesIdle /\ TableIdle /\ DbIdle

NextCodec ==
    \/ \E v \in SetInputs(ftag) : FieldSet(v) /\ UNCHANGED <<regVars, nameVars, tableVars, dbVars>>
    \/ FieldWriteTo /\ UNCHANGED <<regVars, nameVars, tableVars, dbVars>>
    \/ \E kind \in ReaderKinds, k \in TruncLens(Len(out)) :
          OpenWritten(kind, k) /\ UNCHANGED <<regVars, nameVars, tableVars, dbVars>>
    \/ \E kind \in ReaderKinds, bytes \in RawInputs : OpenRaw(kind, bytes) /\ UNCHANGED <<regVars, nameVars, tableVars, dbVars>>
    \/ FieldReadFrom /\ UNCHANGED <<regVars, nameVars, tableVars, dbVars>>
    \/ FieldReadFromHeld /\ UNCHANGED <<regVars, nameVars, tableVars, dbVars>>

SpecCodec == InitCodec /\ [][NextCodec]_vars

InitNames == NamesInit /\ RegIdle /\ CodecIdle /\ TableIdle /\ DbIdle

\* Each of the three is called once with nameArg; AddField is called by
\* goroutine 1 on a new EntityTypeDefn, with a valid type.
NextNames ==
    \/ CallNewNamespace /\ UNCHANGED <<regVars, codecVars, tableVars, dbVars>>
    \/ CallNewEntityTypeDefn /\ UNCHANGED <<regVars, codecVars, tableVars, dbVars>>
    \/ /\ ret = NoRet
       /\ AddFieldReject(1, nameArg, FieldTypeBool)
       /\ UNCHANGED <<codecVars, nameVars, tableVars, dbVars>>
    \/ /\ ret = NoRet
       /\ AddFieldLock(1, nameArg, FieldTypeBool)
       /\ UNCHANGED <<codecVars, nameVars, tableVars, dbVars>>
    \/ AddFieldCheck(1) /\ UNCHANGED <<codecVars, nameVars, tableVars, dbVars>>
    \/ AddFieldInsert(1) /\ UNCHANGED <<codecVars, nameVars, tableVars, dbVars>>

SpecNames == InitNames /\ [][NextNames]_vars

InitTable == TableInit /\ RegIdle /\ CodecIdle /\ NamesIdle /\ DbIdle

NextTable ==
    \/ \E id \in IDInputs : TablePut(id) /\ UNCHANGED <<regVars, codecVars, nameVars, dbVars>>
    \/ \E startAt \in StartAtInputs, limit \in 0..MaxLimit, pred \in Predicates :
          TableSearch(startAt, limit, pred) /\ UNCHANGED <<regVars, codecVars, nameVars, dbVars>>

SpecTable == InitTable /\ [][NextTable]_vars

\* Package storage imports nothing of package flagon and is initialised
\* before it: its calls are followed in a program whose package flagon, if
\* it is linked at all, has been initialised.
InitDb ==
    /\ DbInit /\ RegIdle /\ CodecIdle /\ TableIdle
    /\ nameRegexp = CompiledRegexp /\ NamesQuiet

NextDb ==
    \E t \in Threads :
        \/ \E p \in PathInputs : InitDBReject(t, p) /\ UNCHANGED <<regVars, codecVars, nameVars, tableVars>>
        \/ \E p \in PathInputs : InitDBStart(t, p) /\ UNCHANGED <<regVars, codecVars, nameVars, tableVars>>
        \/ InitDBReset(t) /\ UNCHANGED <<regVars, codecVars, nameVars, tableVars>>
        \/ InitDBJoin(t) /\ UNCHANGED <<regVars, codecVars, nameVars, tableVars>>
        \/ \E mkOK \in BOOLEAN : InitDBMkdir(t, mkOK) /\ UNCHANGED <<regVars, codecVars, nameVars, tableVars>>
        \/ InitDBSetErr(t) /\ UNCHANGED <<regVars, codecVars, nameVars, tableVars>>
        \/ \E openOK \in BOOLEAN : InitDBOpen(t, openOK) /\ UNCHANGED <<regVars, codecVars, nameVars, tableVars>>
        \/ InitDBStoreDB(t) /\ UNCHANGED <<regVars, codecVars, nameVars, tableVars>>
        \/ InitDBStoreErr(t) /\ UNCHANGED <<regVars, codecVars, nameVars, tableVars>>
        \/ InitDBCheck(t) /\ UNCHANGED <<regVars, codecVars, nameVars, tableVars>>
        \/ InitDBDefer(t) /\ UNCHANGED <<regVars, codecVars, nameVars, tableVars>>
        \/ InitDBUpdateRecv(t) /\ UNCHANGED <<regVars, codecVars, nameVars, tableVars>>
        \/ \E updOK \in BOOLEAN : InitDBUpdate(t, updOK) /\ UNCHANGED <<regVars, codecVars, nameVars, tableVars>>
        \/ InitDBUnwind(t) /\ UNCHANGED <<regVars, codecVars, nameVars, tableVars>>
        \/ InitDBSetUpdateErr(t) /\ UNCHANGED <<regVars, codecVars, nameVars, tableVars>>
        \/ InitDBDeferredClose(t) /\ UNCHANGED <<regVars, codecVars, nameVars, tableVars>>
        \/ InitDBReturn(t) /\ UNCHANGED <<regVars, codecVars, nameVars, tableVars>>
        \/ DbInstanceDo(t) /\ UNCHANGED <<regVars, codecVars, nameVars, tableVars>>
        \/ OnceLock(t) /\ UNCHANGED <<regVars, codecVars, nameVars, tableVars>>
        \/ OnceSlow(t) /\ UNCHANGED <<regVars, codecVars, nameVars, tableVars>>
        \/ \E openOK \in BOOLEAN : InstanceOpen(t, openOK) /\ UNCHANGED <<regVars, codecVars, nameVars, tableVars>>
        \/ InstanceStoreDB(t) /\ UNCHANGED <<regVars, codecVars, nameVars, tableVars>>
        \/ InstanceStoreErr(t) /\ UNCHANGED <<regVars, codecVars, nameVars, tableVars>>
        \/ OnceDone(t) /\ UNCHANGED <<regVars, codecVars, nameVars, tableVars>>
        \/ OnceUnlock(t) /\ UNCHANGED <<regVars, codecVars, nameVars, tableVars>>
        \/ DbInstanceCheck(t) /\ UNCHANGED <<regVars, codecVars, nameVars, tableVars>>
        \/ DbInstanceReturnErr(t) /\ UNCHANGED <<regVars, codecVars, nameVars, tableVars>>
        \/ DbCloseRecv(t) /\ UNCHANGED <<regVars, codecVars, nameVars, tableVars>>
        \/ DbClose(t) /\ UNCHANGED <<regVars, codecVars, nameVars, tableVars>>
        \/ ProgramExit(t) /\ UNCHANGED <<regVars, codecVars, nameVars, tableVars>>

SpecDb == InitDb /\ [][NextDb]_vars

====
